---- MODULE Spec2Model ----
(***************************************************************************)
(* A model of src/src/utils/catenary.js: one call of                       *)
(* createTransmissionLine(startPos, endPos, options), step by step.        *)
(*                                                                         *)
(* Numbers.  Lengths and heights are integers in units of 0.02 (so the     *)
(* minimum span 0.1 is 5), sagRatio is in percent, weights are in units of *)
(* 5e-7 (so the clamp 1e-6 of line 85 is 2).  Arithmetic on them is exact: *)
(* rounding of IEEE doubles is not modelled.                               *)
(*                                                                         *)
(* Residual functions.  fb, g, lengthResidual and h are built from         *)
(* Math.cosh / Math.sinh; the model keeps, of each evaluation, only the    *)
(* class of the value (FV: not-a-number, -Infinity, negative, zero,        *)
(* positive, +Infinity; a bisection midpoint also says whether its         *)
(* magnitude is below the tolerance).  Every evaluation may yield every    *)
(* class, so the model's behaviours include the code's.                    *)
(*                                                                         *)
(* The Cesium frame conversion (lines 18-23, 58) is a rigid motion applied *)
(* on the way in and undone on the way out; points are kept in the local   *)
(* frame with p0 = startPos and p1 = endPos.                               *)
(*                                                                         *)
(* The caller.  src/src/managers/InteractionManager.js (the class of lines *)
(* 443-1066) calls createTransmissionLine from createConnection and from   *)
(* updateLineGeometry.  Its modes and selection (ui) and one of its lines  *)
(* (line) are modelled by handler: a handler runs to its end or to its     *)
(* next await before another handler starts.                               *)
(***************************************************************************)
EXTENDS Integers, Sequences, FiniteSets, TLC

VARIABLES
    startPos, endPos, options,  \* the arguments of the call
    pc,                         \* position in createTransmissionLine
    trace,                      \* the strategies entered so far, in order
    a,                          \* the catenary constant of the running strategy
    fn,                         \* the b/p solver that is running, or "none"
    fLo, fHi, expand, i,        \* locals of solveB / solveBForA / solveP
    bRes, fbAtB,                \* how the solver's result arose; the residual class at it
    aLo, aHi,                   \* the bounds of the outer search for a
    afLo, afHi,                 \* the residuals at the two bounds
    guard, tries, aExpand, ai, aKnown,
    result, outcome,            \* the returned value and the return statement taken
    evals, effort,              \* residual evaluations made so far; how they are counted
    tape,                       \* the values the residuals take next; <<>>: any value
    other,                      \* the residuals' table, earlier calls, a suspended call
    ui,                         \* the caller: the modes and selection of InteractionManager
    line                        \* the caller: one lineData and what its geometry follows

callVars == <<startPos, endPos, options, pc, trace, a, fn, fLo, fHi, expand, i,
              bRes, fbAtB, aLo, aHi, afLo, afHi, guard, tries, aExpand, ai,
              aKnown, result, outcome, evals, effort, tape, other>>
vars == <<callVars, ui, line>>

inputVars == <<startPos, endPos, options>>
innerVars == <<fn, fLo, fHi, expand, i, bRes, fbAtB>>
outerVars == <<aLo, aHi, afLo, afHi, guard, tries, aExpand, ai, aKnown>>

-----------------------------------------------------------------------------
(* Bounds of the model *)

MaxCoord == 2       \* heights z0, z1 range over 0..MaxCoord
TapeLen == 3        \* the values of a tape
TapeSymbols == 3    \* the values a tape entry selects among
MaxPoints == 3      \* explicit numPoints range over 0..MaxPoints
MaxTowers == 2      \* towers that are placed
MaxPending == 2     \* placements that await a fetch at the same time
MaxClock == 3       \* the clock takes the times 0..MaxClock
MaxShift == 2       \* a tower is 0..MaxShift steps from where it was connected
FewHundred == 300   \* the evaluation count that "a few hundred" allows

-----------------------------------------------------------------------------
(* Program constants *)

DefaultNumPoints == 64          \* options.numPoints ?? 64
DefaultSagPct == 6              \* options.sagRatio ?? 0.06, in percent
DefaultLinearWeight == 60000000 \* options.linearWeight ?? 30, in units of 5e-7
DefaultHTension == 15000        \* options.hTension ?? 15000
MinSpan == 5                    \* L < 0.1, in units of 0.02
EpsLength == 1                  \* 1e-6 in S = max(lengthMeters, chordLen + 1e-6)
EpsWeight == 2                  \* Math.max(1e-6, linearWeight), in units of 5e-7
BExpandCap == 30                \* solveB / solveBForA: expand < 30
BIterCap == 60                  \* solveB / solveBForA: i < 60
PExpandCap == 20                \* solveP: expand < 20
PIterCap == 50                  \* solveP: i < 50
LenGuardCap == 20               \* length outer bracket: guard < 20
LenIterCap == 60                \* length outer bisection: i < 60
SagTriesCap == 5                \* sag outer pre-expansion: tries < 5
SagExpandCap == 20              \* sag outer bracket: expand < 20
SagIterCap == 40                \* sag outer bisection: i < 40

-----------------------------------------------------------------------------
(* Classes of IEEE double values *)

FV == {"NaN", "NInf", "Neg", "Zero", "Pos", "PInf"}
\* a bisection midpoint: NegS / PosS are nonzero values below the tolerance
MV == FV \cup {"NegS", "PosS"}

isFinite(v) == v \in {"Neg", "NegS", "Zero", "PosS", "Pos"}
IsPositive(v) == v \in {"PosS", "Pos", "PInf"}      \* v > 0
IsNegative(v) == v \in {"NegS", "Neg", "NInf"}      \* v < 0
\* x * y > 0 and x * y < 0 (a product with NaN, or of 0 and an infinity, is NaN)
ProdPos(x, y) == (IsPositive(x) /\ IsPositive(y)) \/ (IsNegative(x) /\ IsNegative(y))
ProdNeg(x, y) == (IsPositive(x) /\ IsNegative(y)) \/ (IsNegative(x) /\ IsPositive(y))
\* Math.abs(f) < tol
AbsBelowTol(v) == v \in {"NegS", "Zero", "PosS"}
\* the class kept in fLo / fHi (the magnitude is not read again)
Stored(v) == CASE v = "NegS" -> "Neg" [] v = "PosS" -> "Pos" [] OTHER -> v

\* How far the sampled end height is from z1: the residual fb(b) (or g(p)) at the
\* b that was returned.  "none" = 0, "within" = nonzero and at most 1e-3,
\* "beyond" = finite and more than 1e-3, "nonfinite" = NaN or an infinity.
Dev == {"none", "within", "beyond", "nonfinite"}
DevOfConverged(v) == IF v = "Zero" THEN "none" ELSE "within"

-----------------------------------------------------------------------------
(* The arguments *)

\* a JavaScript value passed as options.lengthMeters
Num(n) == [type |-> "number", cls |-> "finite", v |-> n]
NaNValue == [type |-> "number", cls |-> "NaN", v |-> 0]
InfinityValue == [type |-> "number", cls |-> "PInf", v |-> 0]
StringValue == [type |-> "string", cls |-> "finite", v |-> 0]
Undefined == [type |-> "undefined", cls |-> "NaN", v |-> 0]

\* options.k ?? d
Opt(o, k, d) == IF k \in DOMAIN o THEN o[k] ELSE d

numPoints == Opt(options, "numPoints", DefaultNumPoints)
sagRatio == Opt(options, "sagRatio", DefaultSagPct)
lengthMeters == Opt(options, "lengthMeters", Undefined)
linearWeight == Opt(options, "linearWeight", DefaultLinearWeight)
hTension == Opt(options, "hTension", DefaultHTension)
\* a variant of mode whose default is the Sag strategy
mode_DefaultSag == Opt(options, "mode", "sag")
mode == Opt(options, "mode", "physics")

Position(x, y, z) == [x |-> x, y |-> y, z |-> z]

\* endpoints in the local frame: the start at the origin of the horizontal plane,
\* at height 1; the end below, level with or above it
Start == Position(0, 0, 1)
\* spans 0 and 3 (below the minimum span) and 5 (the minimum span itself)
ShortEnds == {Position(d[1], d[2], z) : d \in {<<0, 0>>, <<3, 0>>}, z \in 0..MaxCoord}
SpanEnds == {Position(3, 4, z) : z \in 0..MaxCoord}
HighEnd == Position(3, 4, MaxCoord)

\* the option objects a caller passes
ModeOptions == {[mode |-> m] : m \in {"physics", "length", "sag", "tension"}}
PhysicsOptions ==
    {[mode |-> "physics", hTension |-> 3, linearWeight |-> w] : w \in {0, 1, 2, 3}}
    \cup {[mode |-> "physics", hTension |-> h] : h \in {0, -3}}
    \cup {[numPoints |-> n] : n \in 0..MaxPoints}
LengthOptions ==
    {[mode |-> "length", lengthMeters |-> s] :
        s \in {NaNValue, InfinityValue, StringValue, Num(-4), Num(0), Num(4), Num(12)}}
    \cup {[mode |-> "sag", lengthMeters |-> Num(12)]}
    \cup {[mode |-> "length", lengthMeters |-> Num(12), sagRatio |-> 10, numPoints |-> 2]}
SagOptions ==
    {[mode |-> "sag", sagRatio |-> 10, numPoints |-> n] : n \in 0..MaxPoints}
    \cup {[mode |-> "sag", sagRatio |-> 0, numPoints |-> MaxPoints]}
OptionSets == ModeOptions \cup PhysicsOptions \cup LengthOptions \cup SagOptions

\* the calls: every option object on one span, every end height in two modes,
\* and every option object on the spans below the minimum
Calls ==
    {<<Start, HighEnd, o>> : o \in OptionSets}
    \cup {<<Start, e, [mode |-> m]>> : e \in SpanEnds, m \in {"physics", "sag"}}
    \cup {<<Start, e, o>> : e \in ShortEnds, o \in OptionSets}

-----------------------------------------------------------------------------
(* Local Frame Reducer: lines 25-36 *)

dx == endPos.x - startPos.x
dy == endPos.y - startPos.y
LSquared == dx * dx + dy * dy
\* L = Math.hypot(dx, dy); the spans of Calls have integer length
L == CHOOSE r \in 0..(dx + dy) : r * r = LSquared
z0 == startPos.z
z1 == endPos.z
dz == z1 - z0
\* a variant of Degenerate that only rejects a span of zero
Degenerate_ZeroOnly == LSquared = 0

\* L < 0.1
Degenerate == LSquared < MinSpan * MinSpan

\* chordLen = Math.hypot(L, dz), squared
ChordSquared == LSquared + dz * dz

-----------------------------------------------------------------------------
(* Returned values *)

NoResult == [points |-> <<>>, metadata |-> <<>>]

\* heights are fractions over HDen(numPoints), so that the parabola is exact
HDen(n) == 100 * n * n
\* zChord = z0 + (z1 - z0) * t at t = k / n, over HDen(n)
ChordNum(n, k) == 100 * n * (z0 * n + dz * k)

\* lines 44-45 with numPoints = 0: t = 0 / 0 is not a number, and so are x and
\* the three coordinates of the one sample
NaNPoint == [x |-> 0, y |-> 0, den |-> 0, z |-> [num |-> 0, dev |-> "nonfinite"]]

\* a is 0: only hTension = 0 in line 85 gives it (the outer searches keep a
\* between positive bounds)
IsZero(aa) == aa.kind = "ratio" /\ aa.num = 0

\* the sign of a
ASign(aa) ==
    CASE aa.kind = "ratio" ->
            IF aa.num = 0 THEN 0 ELSE IF (aa.num > 0) = (aa.den > 0) THEN 1 ELSE -1
      [] aa.kind = "searched" -> IF aa.class = "Pos" THEN 1 ELSE -1
      [] OTHER -> 0

\* the class of a as a number, for aLo = a and aHi = a (lines 238-244, 356-360)
ClassOf(aa) ==
    IF aa.kind = "searched" THEN aa.class
    ELSE IF aa.kind # "ratio" THEN "NaN"
    ELSE IF ASign(aa) > 0 THEN "Pos"
    ELSE IF ASign(aa) < 0 THEN "Neg"
    ELSE "Zero"

\* a double: a finite number, NaN or an infinity
Fin(n) == [cls |-> "finite", v |-> n]
NonFin(c) == [cls |-> c, v |-> 0]

\* line 67-68 at i = numPoints: the classes of zChord - zCurve at x = L, which is
\* -fb(b): on which side of the end height the curve arrives
EndSide(endDev) ==
    CASE endDev = "none" -> {"Zero"}
      [] endDev = "within" -> {"NegS", "PosS"}
      [] endDev = "beyond" -> {"Neg", "Pos"}
      [] OTHER -> {"NaN", "NInf", "PInf"}

\* lines 64-68: sag = zChord - zCurve at the sample k, how far the curve is below
\* the chord.  The curve passes through the start, so with f the residual at
\* x = L it is the arc between (0, z0) and (L, z1 + f) and
\*     zChord - zCurve = (depth of the arc below its own chord) - f * t.
\* cosh is not computed: the depth of the arc is taken as 2 n k (n - k), of the
\* sign of a (an arc of a > 0 hangs below its chord, one of a < 0 stands above
\* it), and -f * t as k times 0, +-1 (within the tolerance) or +-4 n n (beyond
\* it), a scale that keeps the signs and the order of the samples.  With
\* numPoints = 0, t is 0 / 0; with a = 0 every height is NaN; with a non-finite
\* residual the samples after the first are NaN or an infinity.
Below(aa, n, k, side) ==
    IF n = 0 \/ IsZero(aa) THEN NonFin("NaN")
    ELSE IF k = 0 THEN Fin(0)
    ELSE IF side \in {"NaN", "NInf", "PInf"} THEN NonFin(side)
    ELSE Fin(ASign(aa) * 2 * n * k * (n - k)
             + k * (CASE side = "Zero" -> 0
                      [] side = "PosS" -> 1
                      [] side = "NegS" -> -1
                      [] side = "Pos" -> 4 * n * n
                      [] OTHER -> -(4 * n * n)))

\* x > y on doubles: false when either is NaN
Greater(x, y) ==
    /\ x.cls # "NaN" /\ y.cls # "NaN"
    /\ CASE x.cls = "PInf" -> y.cls # "PInf"
         [] x.cls = "NInf" -> FALSE
         [] OTHER -> y.cls = "NInf" \/ (y.cls = "finite" /\ x.v > y.v)

\* |zChord - zCurve|: the vertical distance between the chord and the curve
Distance(x) ==
    CASE x.cls = "finite" -> Fin(IF x.v < 0 THEN -x.v ELSE x.v)
      [] x.cls = "NaN" -> x
      [] OTHER -> NonFin("PInf")

\* the one element of a set of one element
Only(set) == CHOOSE r \in set : TRUE

\* a variant of the loop that compares Math.abs(sag)
RECURSIVE maxSag_Distance(_, _, _, _, _, _)
maxSag_Distance(aa, n, side, from, to, m) ==
    IF from > to THEN m
    ELSE IF from = to
    THEN Only({IF Greater(Distance(p[1]), p[2]) THEN Distance(p[1]) ELSE p[2] :
                  p \in {<<Below(aa, n, from, side), m>>}})
    ELSE Only({maxSag_Distance(aa, n, side, (from + to) \div 2 + 1, to, half) :
                  half \in {maxSag_Distance(aa, n, side, from, (from + to) \div 2, m)}})

\* lines 63-72: the rounds i = from..to of the loop, entered with maxSag = m:
\* sag = zChord - zCurve (p[1]); if (sag > maxSag) maxSag = sag.  The rounds are
\* run in the order of the loop, the first half and then the second.
RECURSIVE maxSag(_, _, _, _, _, _)
maxSag(aa, n, side, from, to, m) ==
    IF from > to THEN m
    ELSE IF from = to
    THEN Only({IF Greater(p[1], p[2]) THEN p[1] ELSE p[2] :
                  p \in {<<Below(aa, n, from, side), m>>}})
    ELSE Only({maxSag(aa, n, side, (from + to) \div 2 + 1, to, half) :
                  half \in {maxSag(aa, n, side, from, (from + to) \div 2, m)}})

\* a variant of CatenaryPoint whose constant c pins the curve to the end height
CatenaryPoint_PinnedAtEnd(aa, b, n, k, endDev, side) ==
    IF n = 0 THEN [x |-> 0, y |-> 0, den |-> 0,
                   z |-> [num |-> 0, dev |-> "nonfinite", below |-> NonFin("NaN")]]
    ELSE [x |-> startPos.x * n + dx * k,
          y |-> startPos.y * n + dy * k,
          den |-> n,
          z |-> [num |-> ChordNum(n, k),
                 dev |-> IF IsZero(aa) THEN "nonfinite"
                         ELSE IF k = n THEN "none" ELSE IF k = 0 THEN endDev ELSE "curve",
                 below |-> Below(aa, n, k, side),
                 cosh |-> [a |-> aa, b |-> b]]]

\* lines 43-59: the sample k of the catenary (a, b, c), k = 0..numPoints, at
\* x = (k / numPoints) * L; x and y are fractions over den.  The height is
\* a * cosh((x - b) / a) + c with c = z0 - a * cosh(-b / a) (lines 125, 252, 381),
\* so the height at x = 0 is z0; the height at x = L is z1 plus the residual
\* fb(b); the heights between are left as "curve".  With a = 0 the quotient
\* -b / a is not a number, and neither are c and every height.  b is "default0"
\* (the 0 of line 106), "converged" (a midpoint within the tolerance) or "cap"
\* (the midpoint after the last step).
CatenaryPoint(aa, b, n, k, endDev, side) ==
    IF n = 0 THEN [x |-> 0, y |-> 0, den |-> 0,
                   z |-> [num |-> 0, dev |-> "nonfinite", below |-> NonFin("NaN")]]
    ELSE [x |-> startPos.x * n + dx * k,
          y |-> startPos.y * n + dy * k,
          den |-> n,
          z |-> [num |-> ChordNum(n, k),
                 dev |-> IF IsZero(aa) THEN "nonfinite"
                         ELSE IF k = 0 THEN "none" ELSE IF k = n THEN endDev ELSE "curve",
                 below |-> Below(aa, n, k, side),
                 cosh |-> [a |-> aa, b |-> b]]]

\* lines 74-79
Metadata(aa, side) ==
    [a |-> aa,
     sag |-> maxSag(aa, numPoints, side, 0, numPoints, Fin(0)),
     hTension |-> [a |-> aa, times |-> linearWeight],
     linearWeight |-> linearWeight]

\* a variant of buildPositionsFromParams whose loop stops before i = numPoints
buildPositionsFromParams_OneShort(aa, b, endDev, side) ==
    [points |-> [k \in 1..numPoints |-> CatenaryPoint(aa, b, numPoints, k - 1, endDev, side)],
     metadata |-> <<Metadata(aa, side)>>]

\* lines 38-82
buildPositionsFromParams(aa, b, endDev, side) ==
    [points |-> [k \in 1..(numPoints + 1) |-> CatenaryPoint(aa, b, numPoints, k - 1, endDev, side)],
     metadata |-> <<Metadata(aa, side)>>]

\* a variant of ParabolaPoint whose deflection is sagRatio * L * t * (1 - t)
ParabolaPoint_NoFactor(n, k) ==
    IF n = 0 THEN NaNPoint
    ELSE [x |-> startPos.x * n + dx * k,
          y |-> startPos.y * n + dy * k,
          den |-> n,
          z |-> [num |-> ChordNum(n, k) - sagRatio * L * k * (n - k),
                 dev |-> "none"]]

\* lines 336-346 and 368-378: z = z0 + dz * t - sagRatio * L * (4 * t * (1 - t))
ParabolaPoint(n, k) ==
    IF n = 0 THEN NaNPoint
    ELSE [x |-> startPos.x * n + dx * k,
          y |-> startPos.y * n + dy * k,
          den |-> n,
          z |-> [num |-> ChordNum(n, k) - sagRatio * L * 4 * k * (n - k),
                 dev |-> "none"]]

\* lines 335-347 and 367-379: the positions array, returned as it is
ParabolaPositions ==
    [points |-> [k \in 1..(numPoints + 1) |-> ParabolaPoint(numPoints, k - 1)],
     metadata |-> <<>>]

Max(x, y) == IF x >= y THEN x ELSE y
\* a variant of PhysicsA that divides the weight by the tension
PhysicsA_Inverted == [kind |-> "ratio", num |-> Max(EpsWeight, linearWeight), den |-> hTension]

\* a = hTension / Math.max(1e-6, linearWeight): line 85
PhysicsA == [kind |-> "ratio", num |-> hTension, den |-> Max(EpsWeight, linearWeight)]
\* an a found by the outer search of Length or Sag
SearchedA(v) == [kind |-> "searched", class |-> v]
UnsetA == [kind |-> "unset", num |-> 0, den |-> 1]

\* aLo *= 0.5 (lines 212, 215, 312, 329): at most 20 (Length) or 25 (Sag)
\* a bound of the outer search for a: the class of its value and, where the
\* moves are followed (effort = "moves"), the power of 2 it has been multiplied
\* by since the search began; the bisection keeps the class alone
Bound(c) == [class |-> c, exp |-> 0]
UnsetBound == Bound("unset")

\* halvings of a bound that starts at 0.1 or more do not underflow, and aHi *= 2
\* (lines 209, 216, 318, 326) at most 20 or 25 times from 1000 * L does not
\* overflow for the spans of the model: the class of the bound is kept
Halved(v) == [v EXCEPT !.exp = IF effort = "moves" THEN @ - 1 ELSE @]
Doubled(v) == [v EXCEPT !.exp = IF effort = "moves" THEN @ + 1 ELSE @]

\* a variant of Mid that takes half the width of the interval, 0.5 * (aHi - aLo)
Mid_HalfWidth(lo, hi) ==
    CASE "NaN" \in {lo, hi} -> {"NaN"}
      [] lo = hi /\ lo \in {"NInf", "PInf"} -> {"NaN"}
      [] hi = "PInf" \/ lo = "NInf" -> {"PInf"}
      [] hi = "NInf" \/ lo = "PInf" -> {"NInf"}
      [] lo = "Zero" -> {hi}
      [] hi = "Zero" -> {IF lo = "Pos" THEN "Neg" ELSE "Pos"}
      [] lo = "Neg" /\ hi = "Pos" -> {"Pos"}
      [] lo = "Pos" /\ hi = "Neg" -> {"Neg"}
      [] OTHER -> {"Neg", "Zero", "Pos"}

\* lines 230, 246, 349, 362: the classes 0.5 * (aLo + aHi) can have
Mid(lo, hi) ==
    CASE "NaN" \in {lo, hi} -> {"NaN"}
      [] {lo, hi} = {"NInf", "PInf"} -> {"NaN"}
      [] "PInf" \in {lo, hi} -> {"PInf"}
      [] "NInf" \in {lo, hi} -> {"NInf"}
      [] lo = hi -> {lo}
      [] {lo, hi} = {"Zero", "Pos"} -> {"Pos"}
      [] {lo, hi} = {"Zero", "Neg"} -> {"Neg"}
      [] OTHER -> {"Neg", "Zero", "Pos"}

\* lines 189-190: aLo = Math.max(L / 600, 0.1), aHi = L * 1000
LengthALo == Bound("Pos")
LengthAHi == Bound(IF LSquared > 0 THEN "Pos" ELSE "Zero")
\* lines 306-307: aLo = Math.max(0.1, L * 0.01), aHi = L * 100
SagALo == Bound("Pos")
SagAHi == Bound(IF LSquared > 0 THEN "Pos" ELSE "Zero")

-----------------------------------------------------------------------------
(* The residuals fb, g, h and lengthResidual are functions of their argument  *)
(* and of the values of the enclosing call they read.  A tape fixes the       *)
(* values a search meets, in the order it meets them; it is looked up from    *)
(* what the residual reads, so two searches that read the same values meet    *)
(* the same residuals.  With the empty tape every value is possible.          *)

\* the order in which a tape entry selects among the values of a set
Order == <<"Neg", "Pos", "PosS", "Zero", "NegS", "PInf", "NaN", "NInf",
           "within", "beyond", "none", "nonfinite", "converged", "cap">>
InOrder(S) == SelectSeq(Order, LAMBDA x : x \in S)
Nth(S, t) == InOrder(S)[(t % Cardinality(S)) + 1]
DrawFrom(t, S, k) == IF t = <<>> THEN S ELSE {Nth(S, t[(k % Len(t)) + 1])}
\* the same for the outcome of a comparison
DrawBool(S, k) ==
    IF tape = <<>> \/ Cardinality(S) = 1 THEN S ELSE {tape[(k % Len(tape)) + 1] % 2 = 0}
Rotate(t, n) == [j \in 1..Len(t) |-> t[((j - 1 + n) % Len(t)) + 1]]
Draw(S, k) == DrawFrom(tape, S, k)
Drawn(n) == tape' = Rotate(tape, n)

Tapes == [1..TapeLen -> 0..(TapeSymbols - 1)]
\* a variant of TapeFor for residuals that go on where the last search stopped
TapeFor_Carried(key) == tape

TapeFor(key) ==
    IF other.base = <<>> THEN <<>>
    ELSE [j \in 1..Len(other.base) |-> (other.base[j] + key) % TapeSymbols]

NoOther == [base |-> <<>>, earlier |-> <<>>, waiting |-> <<>>, id |-> 1]

-----------------------------------------------------------------------------
(* The caller at rest *)

\* constructor, lines 444-458.  pickMode is not assigned there: it is
\* undefined, which handleInput (line 509) reads as false.  placedObjects is
\* the number of towers placed (tower k is the k-th), pending the placements
\* that await a fetch, connected the towers of the last connection made,
\* dropped the selection that the last completed placement threw away.
Idle ==
    [placeMode |-> FALSE, connectMode |-> FALSE, pickMode |-> FALSE,
     selectedObjects |-> <<>>, placedObjects |-> 0, pending |-> <<>>,
     weatherData |-> FALSE, connected |-> <<>>, last |-> "constructor",
     dropped |-> <<>>]

\* no line has been made
NoLine == [time |-> 0, tower1 |-> 0, tower2 |-> 0, load |-> 0,
           start |-> 0, end |-> 0, lastTemp |-> <<>>, lastPositions |-> <<>>,
           frameCache |-> <<>>, returned |-> <<>>]

-----------------------------------------------------------------------------
(* Init: the call is about to start *)

\* the call is looked at on its own: its caller is at rest
NoCaller == ui = Idle /\ line = NoLine

\* the locals of a call that is about to start
CallBegins ==
    /\ pc = "start"
    /\ trace = <<>>
    /\ a = UnsetA
    /\ fn = "none"
    /\ fLo = "unset" /\ fHi = "unset" /\ expand = 0 /\ i = 0
    /\ bRes = "none" /\ fbAtB = "none"
    /\ aLo = UnsetBound /\ aHi = UnsetBound
    /\ afLo = "unset" /\ afHi = "unset"
    /\ guard = 0 /\ tries = 0 /\ aExpand = 0 /\ ai = 0 /\ aKnown = FALSE
    /\ result = NoResult
    /\ outcome = "none"
    /\ evals = 0

Init ==
    /\ \E c \in Calls : startPos = c[1] /\ endPos = c[2] /\ options = c[3]
    /\ effort = "off"
    /\ tape = <<>> /\ other = NoOther
    /\ CallBegins
    /\ NoCaller

\* Counting the evaluations of the residual functions fb, g, lengthResidual and
\* h.  Where a solver is stepped through (solveB, and the last solveBForA and
\* solveP after an outer search that ran to its cap) every evaluation is
\* counted as it is made.  Where an inner solve is one step of the model, inside
\* lengthResidual (lines 179-187) and h (lines 296-305), its evaluations are
\* counted in one of two ways, fixed for the call by effort:
\*   "least": the fewest a run of the solver makes, 3 (both interval ends
\*            and a first midpoint within the tolerance); evals is then a number
\*            of evaluations the call has certainly made, kept up to FewHundred + 1;
\*   "most":  the most a run makes (2 for the interval ends, 2 for every round
\*            of the expansion loop, 1 for every bisection step), every round of
\*            the bracket loop of lines 206-220 as evaluating both ends, and
\*            every outer loop that is left early as if it had run to its cap;
\*            evals is then a number the call has certainly not exceeded.
\* effort = "off" leaves the counter alone, and so does effort = "moves", under
\* which the moves of the bounds of the outer searches are followed instead.
SolveEvaluations(f) ==
    IF effort = "most"
    THEN IF f = "solveP" THEN 2 + 2 * PExpandCap + PIterCap
                         ELSE 2 + 2 * BExpandCap + BIterCap
    ELSE 3
\* n calls of lengthResidual (f = "solveBForA") or of h (f = "solveP"): each is
\* one evaluation of the outer residual and one run of the inner solver
OuterEvaluations(f, n) == n * (1 + SolveEvaluations(f))
\* the n rounds that a loop left early did not make
RoundsNotMade(f, n) == IF effort = "most" THEN OuterEvaluations(f, n) ELSE 0
Min(x, y) == IF x <= y THEN x ELSE y
\* a step that evaluates residual functions n times
Evaluations(n) ==
    evals' = CASE effort \in {"off", "moves"} -> evals
               [] effort = "least" -> Min(evals + n, FewHundred + 1)
               [] effort = "most" -> evals + n

\* solveB / solveBForA / solveP returns: its locals are gone
SolverReturns ==
    /\ fn' = "none"
    /\ fLo' = "unset" /\ fHi' = "unset" /\ expand' = 0 /\ i' = 0

\* a return statement: the call ends with value r
Return(r, kind) ==
    /\ result' = r
    /\ outcome' = kind
    /\ pc' = "done"

-----------------------------------------------------------------------------
(* createTransmissionLine: lines 10-36 and the dispatch of lines 84, 129, 385 *)

\* lines 25-30: if (L < 0.1) return [startPos, endPos]
ReturnDegenerate ==
    /\ pc = "start"
    /\ Degenerate
    /\ Return([points |-> <<startPos, endPos>>, metadata |-> <<>>], "Degenerate")
    /\ Evaluations(0)
    /\ Drawn(0)
    /\ UNCHANGED <<inputVars, effort, ui, line, other, trace, a, innerVars, outerVars>>

\* lines 31-36
ReduceFrame ==
    /\ pc = "start"
    /\ ~Degenerate
    /\ pc' = "dispatch"
    /\ Evaluations(0)
    /\ Drawn(0)
    /\ UNCHANGED <<inputVars, effort, ui, line, other, trace, a, innerVars, outerVars, result, outcome>>

\* a variant of the guard that accepts every number that is not NaN
LengthGuard_AnyNumber ==
    /\ mode = "length"
    /\ lengthMeters.type = "number"
    /\ lengthMeters.cls # "NaN"

\* lines 129-134: the guard of the length branch
LengthGuard ==
    /\ mode = "length"
    /\ lengthMeters.type = "number"
    /\ lengthMeters.cls = "finite"
    /\ lengthMeters.v > 0

-----------------------------------------------------------------------------
(* Physics: lines 84-127 *)

\* the loop condition of lines 95-98 and the test of line 105
solveB_Unbracketed(lo, hi) == ProdPos(lo, hi) \/ ~isFinite(lo) \/ ~isFinite(hi)

\* lines 88-89: fb reads a, L and dz
PhysicsKey == hTension + 5 * Max(EpsWeight, linearWeight) + LSquared + 7 * dz

\* lines 84-94: a, then fLo = fb(lo), fHi = fb(hi) on [-10 L, 10 L]
PhysicsBegin ==
    /\ pc = "dispatch"
    /\ mode = "physics"
    /\ a' = PhysicsA
    /\ trace' = Append(trace, "Physics")
    /\ fn' = "solveB"
    /\ fLo' \in DrawFrom(TapeFor(PhysicsKey), FV, 0) /\ fHi' \in DrawFrom(TapeFor(PhysicsKey), FV, 1)
    /\ expand' = 0
    /\ pc' = "solveB_while"
    /\ Evaluations(2)
    /\ tape' = Rotate(TapeFor(PhysicsKey), 2)
    /\ UNCHANGED <<inputVars, effort, ui, line, other, i, bRes, fbAtB, outerVars, result, outcome>>

\* a variant of solveB_Expand that neither tests nor counts the rounds
solveB_Expand_Unbounded ==
    /\ pc = "solveB_while"
    /\ solveB_Unbracketed(fLo, fHi)
    /\ fLo' \in Draw(FV, 0) /\ fHi' \in Draw(FV, 1)
    /\ Evaluations(2)
    /\ Drawn(2)
    /\ UNCHANGED <<inputVars, effort, ui, line, other, pc, trace, a, fn, expand, i, bRes, fbAtB, outerVars, result, outcome>>

\* lines 95-104: one round of the expansion loop
solveB_Expand ==
    /\ pc = "solveB_while"
    /\ solveB_Unbracketed(fLo, fHi) /\ expand < BExpandCap
    /\ fLo' \in Draw(FV, 0) /\ fHi' \in Draw(FV, 1)
    /\ expand' = expand + 1
    /\ Evaluations(2)
    /\ Drawn(2)
    /\ UNCHANGED <<inputVars, effort, ui, line, other, pc, trace, a, fn, i, bRes, fbAtB, outerVars, result, outcome>>

\* a variant of solveB_NotBracketed that raises the failure instead of returning 0
solveB_NotBracketed_Throws ==
    /\ pc = "solveB_while"
    /\ ~(solveB_Unbracketed(fLo, fHi) /\ expand < BExpandCap)
    /\ solveB_Unbracketed(fLo, fHi)
    /\ pc' = "thrown"
    /\ Evaluations(0)
    /\ Drawn(0)
    /\ UNCHANGED <<inputVars, effort, ui, line, other, trace, a, innerVars, outerVars, result, outcome>>

\* a variant of solveB_NotBracketed that hands the call over to the Sag strategy
solveB_NotBracketed_FallsBack ==
    /\ pc = "solveB_while"
    /\ ~(solveB_Unbracketed(fLo, fHi) /\ expand < BExpandCap)
    /\ solveB_Unbracketed(fLo, fHi)
    /\ trace' = Append(trace, "Sag")
    /\ SolverReturns
    /\ pc' = "sag_begin"
    /\ Evaluations(0)
    /\ Drawn(0)
    /\ UNCHANGED <<inputVars, effort, ui, line, other, a, bRes, fbAtB, outerVars, result, outcome>>

\* lines 105-107: return 0
solveB_NotBracketed ==
    /\ pc = "solveB_while"
    /\ ~(solveB_Unbracketed(fLo, fHi) /\ expand < BExpandCap)
    /\ solveB_Unbracketed(fLo, fHi)
    /\ bRes' = "default0"
    /\ fbAtB' \in Draw(Dev, 0)
    /\ SolverReturns
    /\ pc' = "physics_build"
    /\ Evaluations(0)
    /\ Drawn(1)
    /\ UNCHANGED <<inputVars, effort, ui, line, other, trace, a, outerVars, result, outcome>>

\* line 108: the bisection starts (expand is not read again)
solveB_Bracketed ==
    /\ pc = "solveB_while"
    /\ ~(solveB_Unbracketed(fLo, fHi) /\ expand < BExpandCap)
    /\ ~solveB_Unbracketed(fLo, fHi)
    /\ i' = 0
    /\ expand' = 0
    /\ pc' = "solveB_for"
    /\ Evaluations(0)
    /\ Drawn(0)
    /\ UNCHANGED <<inputVars, effort, ui, line, other, trace, a, fn, fLo, fHi, bRes, fbAtB, outerVars, result, outcome>>

\* lines 108-121: one bisection step
solveB_Bisect ==
    /\ pc = "solveB_for"
    /\ i < BIterCap
    /\ \E f \in Draw(MV, 0) :
        IF AbsBelowTol(f)
        THEN /\ bRes' = "converged"
             /\ fbAtB' = DevOfConverged(f)
             /\ SolverReturns
             /\ pc' = "physics_build"
        ELSE /\ IF ProdNeg(f, fLo)
                THEN fHi' = Stored(f) /\ fLo' = fLo
                ELSE fLo' = Stored(f) /\ fHi' = fHi
             /\ i' = i + 1
             /\ UNCHANGED <<fn, expand, bRes, fbAtB, pc>>
    /\ Evaluations(1)
    /\ Drawn(1)
    /\ UNCHANGED <<inputVars, effort, ui, line, other, trace, a, outerVars, result, outcome>>

\* line 122: return 0.5 * (lo + hi) after 60 steps
solveB_Cap ==
    /\ pc = "solveB_for"
    /\ ~(i < BIterCap)
    /\ bRes' = "cap"
    /\ fbAtB' \in Draw(Dev, 0)
    /\ SolverReturns
    /\ pc' = "physics_build"
    /\ Evaluations(0)
    /\ Drawn(1)
    /\ UNCHANGED <<inputVars, effort, ui, line, other, trace, a, outerVars, result, outcome>>

\* lines 124-126: c from the pass-through identity, then the samples
PhysicsReturn ==
    /\ pc = "physics_build"
    /\ \E side \in Draw(EndSide(fbAtB), 0) :
           Return(buildPositionsFromParams(a, bRes, fbAtB, side), "Physics")
    /\ Evaluations(0)
    /\ Drawn(0)
    /\ UNCHANGED <<inputVars, effort, ui, line, other, trace, a, innerVars, outerVars>>

-----------------------------------------------------------------------------
(* Length: lines 129-254 *)

\* a variant of hasBracket in which +Infinity has no sign
hasBracket_FiniteOnly(v1, v2) ==
    /\ v1 # "PInf" /\ v2 # "PInf"
    /\ ProdNeg(v1, v2)

\* lines 195-203
hasBracket(v1, v2) ==
    \/ (v1 = "PInf" /\ IsNegative(v2))
    \/ (v2 = "PInf" /\ IsNegative(v1))
    \/ ProdNeg(v1, v2)

\* a variant of solveBForA_Unbracketed that also refuses a residual of 0
solveBForA_Unbracketed_OrZero(lo, hi) ==
    ProdPos(lo, hi) \/ lo = "Zero" \/ hi = "Zero" \/ ~isFinite(lo) \/ ~isFinite(hi)

\* the loop condition of lines 149-152 and the test of line 159
solveBForA_Unbracketed(lo, hi) == ProdPos(lo, hi) \/ ~isFinite(lo) \/ ~isFinite(hi)

\* S = Math.max(lengthMeters, chordLen + 1e-6): whether the clamp replaces the
\* requested length (on the grid of the model, lengthMeters <= chordLen)
SClamped == lengthMeters.v * lengthMeters.v <= ChordSquared

\* a variant of S that takes the requested length as it is
S_Unclamped == [sq |-> lengthMeters.v * lengthMeters.v, plus |-> 0]

\* line 135: S = Math.max(lengthMeters, chordLen + 1e-6), as the square of a
\* length plus a number of times 1e-6
S ==
    IF SClamped THEN [sq |-> ChordSquared, plus |-> EpsLength]
    ELSE [sq |-> lengthMeters.v * lengthMeters.v, plus |-> 0]

\* lines 179-187: lengthResidual(a) is +Infinity when solveBForA(a) returned null
\* (failed), and else S_pred - S, of class v
lengthResidual(failed, v) == IF failed THEN "PInf" ELSE v

\* the values lengthResidual can take at evaluation k of a step: whether the
\* inner solve fails is read two places further on the tape
LengthResidualFrom(t, V, k) ==
    {lengthResidual(failed, v) :
        failed \in IF t = <<>> THEN BOOLEAN ELSE {t[((k + 2) % Len(t)) + 1] % 2 = 0},
        v \in DrawFrom(t, V, k)}
LengthResidual(V, k) == LengthResidualFrom(tape, V, k)

\* lines 135-187: lengthResidual and its fb read S, L and dz
LengthKey == (IF SClamped THEN 0 ELSE lengthMeters.v) + LSquared + 7 * dz

\* lines 129-136, 189-193, 205: fLo = lengthResidual(aLo), fHi = lengthResidual(aHi)
\* on [max(L / 600, 0.1), 1000 L]; lengthResidual is S_pred - S, or +Infinity when
\* solveBForA returns null
LengthBegin ==
    /\ pc = "dispatch"
    /\ LengthGuard
    /\ trace' = Append(trace, "Length")
    /\ a' = UnsetA
    /\ aLo' = LengthALo /\ aHi' = LengthAHi
    /\ afLo' \in LengthResidualFrom(TapeFor(LengthKey), FV, 0)
    /\ afHi' \in LengthResidualFrom(TapeFor(LengthKey), FV, 1)
    /\ guard' = 0
    /\ pc' = "length_while"
    /\ Evaluations(OuterEvaluations("solveBForA", 2))
    /\ tape' = Rotate(TapeFor(LengthKey), 2)
    /\ UNCHANGED <<inputVars, effort, ui, line, other, innerVars, tries, aExpand, ai, aKnown, result, outcome>>

\* a variant of LengthExpand that neither tests nor counts the rounds
LengthExpand_Unbounded ==
    /\ pc = "length_while"
    /\ ~hasBracket(afLo, afHi)
    /\ IF IsPositive(afLo) /\ IsPositive(afHi)
       THEN aHi' = Doubled(aHi) /\ afHi' \in LengthResidual(FV, 0) /\ UNCHANGED <<aLo, afLo>>
       ELSE IF IsNegative(afLo) /\ IsNegative(afHi)
       THEN aLo' = Halved(aLo) /\ afLo' \in LengthResidual(FV, 0) /\ UNCHANGED <<aHi, afHi>>
       ELSE /\ aLo' = Halved(aLo) /\ aHi' = Doubled(aHi)
            /\ afLo' \in LengthResidual(FV, 0) /\ afHi' \in LengthResidual(FV, 1)
    /\ Evaluations(OuterEvaluations("solveBForA", 2))
    /\ Drawn(2)
    /\ UNCHANGED <<inputVars, effort, ui, line, other, pc, trace, a, innerVars, guard, tries, aExpand, ai, aKnown, result, outcome>>

\* a variant of LengthExpand that widens both bounds in every round
LengthExpand_BothSides ==
    /\ pc = "length_while"
    /\ ~hasBracket(afLo, afHi) /\ guard < LenGuardCap
    /\ aLo' = Halved(aLo) /\ aHi' = Doubled(aHi)
    /\ afLo' \in LengthResidual(FV, 0) /\ afHi' \in LengthResidual(FV, 1)
    /\ guard' = guard + 1
    /\ Evaluations(OuterEvaluations("solveBForA", 2))
    /\ Drawn(2)
    /\ UNCHANGED <<inputVars, effort, ui, line, other, pc, trace, a, innerVars, tries, aExpand, ai, aKnown, result, outcome>>

\* lines 206-220: one round of the bracket loop
LengthExpand ==
    /\ pc = "length_while"
    /\ ~hasBracket(afLo, afHi) /\ guard < LenGuardCap
    /\ IF IsPositive(afLo) /\ IsPositive(afHi)
       THEN aHi' = Doubled(aHi) /\ afHi' \in LengthResidual(FV, 0) /\ UNCHANGED <<aLo, afLo>>
       ELSE IF IsNegative(afLo) /\ IsNegative(afHi)
       THEN aLo' = Halved(aLo) /\ afLo' \in LengthResidual(FV, 0) /\ UNCHANGED <<aHi, afHi>>
       ELSE /\ aLo' = Halved(aLo) /\ aHi' = Doubled(aHi)
            /\ afLo' \in LengthResidual(FV, 0) /\ afHi' \in LengthResidual(FV, 1)
    /\ guard' = guard + 1
    /\ Evaluations(OuterEvaluations("solveBForA",
           IF effort # "most" /\ ((IsPositive(afLo) /\ IsPositive(afHi))
                                  \/ (IsNegative(afLo) /\ IsNegative(afHi)))
           THEN 1 ELSE 2))
    /\ Drawn(2)
    /\ UNCHANGED <<inputVars, effort, ui, line, other, pc, trace, a, innerVars, tries, aExpand, ai, aKnown, result, outcome>>

\* the outer search of Length or Sag is left: its locals are gone
OuterReset ==
    /\ aLo' = UnsetBound /\ aHi' = UnsetBound
    /\ afLo' = "unset" /\ afHi' = "unset"
    /\ guard' = 0 /\ tries' = 0 /\ aExpand' = 0 /\ ai' = 0 /\ aKnown' = FALSE

\* a variant of LengthNoBracket that skips Sag and returns the parabola at once
LengthNoBracket_ToParabola ==
    /\ pc = "length_while"
    /\ ~(~hasBracket(afLo, afHi) /\ guard < LenGuardCap)
    /\ ~hasBracket(afLo, afHi)
    /\ trace' = Append(trace, "Parabola")
    /\ OuterReset
    /\ Return(ParabolaPositions, "Parabola")
    /\ Evaluations(RoundsNotMade("solveBForA", 2 * (LenGuardCap - guard)))
    /\ Drawn(0)
    /\ UNCHANGED <<inputVars, effort, ui, line, other, a, innerVars>>

\* lines 222-228: no bracket for a, return createSagBased()
LengthNoBracket ==
    /\ pc = "length_while"
    /\ ~(~hasBracket(afLo, afHi) /\ guard < LenGuardCap)
    /\ ~hasBracket(afLo, afHi)
    /\ trace' = Append(trace, "Sag")
    /\ OuterReset
    /\ pc' = "sag_begin"
    /\ Evaluations(RoundsNotMade("solveBForA", 2 * (LenGuardCap - guard)))
    /\ Drawn(0)
    /\ UNCHANGED <<inputVars, effort, ui, line, other, a, innerVars, result, outcome>>

\* lines 229-230: a = 0.5 * (aLo + aHi) (guard is not read again)
LengthBracketed ==
    /\ pc = "length_while"
    /\ ~(~hasBracket(afLo, afHi) /\ guard < LenGuardCap)
    /\ hasBracket(afLo, afHi)
    /\ \E m \in Mid(aLo.class, aHi.class) : a' = SearchedA(m)
    /\ ai' = 0
    /\ guard' = 0
    /\ pc' = "length_for"
    /\ Evaluations(RoundsNotMade("solveBForA", 2 * (LenGuardCap - guard)))
    /\ Drawn(0)
    /\ aLo' = Bound(aLo.class) /\ aHi' = Bound(aHi.class)
    /\ UNCHANGED <<inputVars, effort, ui, line, other, trace, innerVars, afLo, afHi, tries, aExpand, aKnown, result, outcome>>

\* lines 231-247: one step of the bisection for a
LengthBisect ==
    /\ pc = "length_for"
    /\ ai < LenIterCap
    /\ \E f \in LengthResidual(MV, 0) :
        IF AbsBelowTol(f)
        THEN /\ aKnown' = TRUE
             /\ aLo' = UnsetBound /\ aHi' = UnsetBound
             /\ afLo' = "unset" /\ afHi' = "unset" /\ ai' = 0
             /\ pc' = "length_final"
             /\ a' = a
        ELSE /\ IF f = "PInf"
                THEN aLo' = Bound(ClassOf(a)) /\ afLo' = f /\ UNCHANGED <<aHi, afHi>>
                ELSE IF ProdNeg(f, afLo)
                THEN aHi' = Bound(ClassOf(a)) /\ afHi' = Stored(f) /\ UNCHANGED <<aLo, afLo>>
                ELSE aLo' = Bound(ClassOf(a)) /\ afLo' = Stored(f) /\ UNCHANGED <<aHi, afHi>>
             /\ \E m \in Mid(aLo'.class, aHi'.class) : a' = SearchedA(m)
             /\ ai' = ai + 1
             /\ UNCHANGED <<aKnown, pc>>
    /\ Evaluations(OuterEvaluations("solveBForA", 1)
                   + IF pc' # pc THEN RoundsNotMade("solveBForA", LenIterCap - ai - 1) ELSE 0)
    /\ Drawn(1)
    /\ UNCHANGED <<inputVars, effort, ui, line, other, trace, innerVars, guard, tries, aExpand, result, outcome>>

\* line 231: the loop ends after 60 steps, a is a midpoint that was not evaluated
\* (fLo, fHi and i are not read again)
LengthCap ==
    /\ pc = "length_for"
    /\ ~(ai < LenIterCap)
    /\ aKnown' = FALSE
    /\ aLo' = UnsetBound /\ aHi' = UnsetBound
    /\ afLo' = "unset" /\ afHi' = "unset" /\ ai' = 0
    /\ pc' = "length_final"
    /\ Evaluations(0)
    /\ Drawn(0)
    /\ UNCHANGED <<inputVars, effort, ui, line, other, trace, a, innerVars, guard, tries, aExpand, result, outcome>>

\* line 248 after the break of line 234: lengthResidual(a) was finite, so the
\* same solveBForA(a) does not return null
LengthFinalKnown ==
    /\ pc = "length_final"
    /\ aKnown
    /\ \E how \in Draw({"converged", "cap"}, 0) :
        /\ bRes' = how
        /\ fbAtB' \in Draw(IF how = "converged" THEN {"none", "within"} ELSE Dev, 1)
    /\ pc' = "length_build"
    /\ Evaluations(SolveEvaluations("solveBForA"))
    /\ Drawn(2)
    /\ UNCHANGED <<inputVars, effort, ui, line, other, trace, a, fn, fLo, fHi, expand, i, outerVars, result, outcome>>

\* line 248 after 60 steps: solveBForA(a) runs at an a not evaluated before;
\* lines 144-147
LengthFinalSolve ==
    /\ pc = "length_final"
    /\ ~aKnown
    /\ fn' = "solveBForA"
    /\ fLo' \in Draw(FV, 0) /\ fHi' \in Draw(FV, 1)
    /\ expand' = 0
    /\ pc' = "solveBForA_while"
    /\ Evaluations(2)
    /\ Drawn(2)
    /\ UNCHANGED <<inputVars, effort, ui, line, other, trace, a, i, bRes, fbAtB, outerVars, result, outcome>>

\* lines 149-158
solveBForA_Expand ==
    /\ pc = "solveBForA_while"
    /\ solveBForA_Unbracketed(fLo, fHi) /\ expand < BExpandCap
    /\ fLo' \in Draw(FV, 0) /\ fHi' \in Draw(FV, 1)
    /\ expand' = expand + 1
    /\ Evaluations(2)
    /\ Drawn(2)
    /\ UNCHANGED <<inputVars, effort, ui, line, other, pc, trace, a, fn, i, bRes, fbAtB, outerVars, result, outcome>>

\* lines 159-161: return null
solveBForA_NotBracketed ==
    /\ pc = "solveBForA_while"
    /\ ~(solveBForA_Unbracketed(fLo, fHi) /\ expand < BExpandCap)
    /\ solveBForA_Unbracketed(fLo, fHi)
    /\ bRes' = "null"
    /\ fbAtB' = "none"
    /\ SolverReturns
    /\ pc' = "length_build"
    /\ Evaluations(0)
    /\ Drawn(0)
    /\ UNCHANGED <<inputVars, effort, ui, line, other, trace, a, outerVars, result, outcome>>

\* line 162: the bisection starts (expand is not read again)
solveBForA_Bracketed ==
    /\ pc = "solveBForA_while"
    /\ ~(solveBForA_Unbracketed(fLo, fHi) /\ expand < BExpandCap)
    /\ ~solveBForA_Unbracketed(fLo, fHi)
    /\ i' = 0
    /\ expand' = 0
    /\ pc' = "solveBForA_for"
    /\ Evaluations(0)
    /\ Drawn(0)
    /\ UNCHANGED <<inputVars, effort, ui, line, other, trace, a, fn, fLo, fHi, bRes, fbAtB, outerVars, result, outcome>>

\* lines 162-175
solveBForA_Bisect ==
    /\ pc = "solveBForA_for"
    /\ i < BIterCap
    /\ \E f \in Draw(MV, 0) :
        IF AbsBelowTol(f)
        THEN /\ bRes' = "converged"
             /\ fbAtB' = DevOfConverged(f)
             /\ SolverReturns
             /\ pc' = "length_build"
        ELSE /\ IF ProdNeg(f, fLo)
                THEN fHi' = Stored(f) /\ fLo' = fLo
                ELSE fLo' = Stored(f) /\ fHi' = fHi
             /\ i' = i + 1
             /\ UNCHANGED <<fn, expand, bRes, fbAtB, pc>>
    /\ Evaluations(1)
    /\ Drawn(1)
    /\ UNCHANGED <<inputVars, effort, ui, line, other, trace, a, outerVars, result, outcome>>

\* line 176
solveBForA_Cap ==
    /\ pc = "solveBForA_for"
    /\ ~(i < BIterCap)
    /\ bRes' = "cap"
    /\ fbAtB' \in Draw(Dev, 0)
    /\ SolverReturns
    /\ pc' = "length_build"
    /\ Evaluations(0)
    /\ Drawn(1)
    /\ UNCHANGED <<inputVars, effort, ui, line, other, trace, a, outerVars, result, outcome>>

\* a variant of LengthInnerFailed that builds the catenary although b is null
LengthInnerFailed_Builds ==
    /\ pc = "length_build"
    /\ bRes = "null"
    /\ \E side \in Draw(EndSide(fbAtB), 0) :
           Return(buildPositionsFromParams(a, bRes, fbAtB, side), "Length")
    /\ Evaluations(0)
    /\ Drawn(0)
    /\ UNCHANGED <<inputVars, effort, ui, line, other, trace, a, innerVars, outerVars>>

\* lines 249-251: b === null, return createSagBased()
LengthInnerFailed ==
    /\ pc = "length_build"
    /\ bRes = "null"
    /\ trace' = Append(trace, "Sag")
    /\ OuterReset
    /\ bRes' = "none"
    /\ pc' = "sag_begin"
    /\ Evaluations(0)
    /\ Drawn(0)
    /\ UNCHANGED <<inputVars, effort, ui, line, other, a, fn, fLo, fHi, expand, i, fbAtB, result, outcome>>

\* lines 252-253
LengthReturn ==
    /\ pc = "length_build"
    /\ bRes # "null"
    /\ \E side \in Draw(EndSide(fbAtB), 0) :
           Return(buildPositionsFromParams(a, bRes, fbAtB, side), "Length")
    /\ Evaluations(0)
    /\ Drawn(0)
    /\ UNCHANGED <<inputVars, effort, ui, line, other, trace, a, innerVars, outerVars>>

-----------------------------------------------------------------------------
(* Sag: lines 256-385 *)

\* line 385: neither the physics nor the length branch was taken
SagDispatch ==
    /\ pc = "dispatch"
    /\ mode # "physics"
    /\ ~LengthGuard
    /\ trace' = Append(trace, "Sag")
    /\ pc' = "sag_begin"
    /\ Evaluations(0)
    /\ Drawn(0)
    /\ UNCHANGED <<inputVars, effort, ui, line, other, a, innerVars, outerVars, result, outcome>>

\* a variant of SagKey for an h that reads linearWeight as well
SagKey_ReadsWeight == sagRatio + LSquared + 5 * z0 + 7 * dz + linearWeight

\* lines 258-305: h and g read sagRatio, L, dz and z0
SagKey == sagRatio + LSquared + 5 * z0 + 7 * dz

\* lines 306-310: fLo = h(aLo), fHi = h(aHi) on [max(0.1, 0.01 L), 100 L]; h is
\* lineMid - zMid - sagRatio * L, or +Infinity when solveP returns null
createSagBased_Begin ==
    /\ pc = "sag_begin"
    /\ a' = UnsetA
    /\ aLo' = SagALo /\ aHi' = SagAHi
    /\ afLo' \in DrawFrom(TapeFor(SagKey), FV, 0) /\ afHi' \in DrawFrom(TapeFor(SagKey), FV, 1)
    /\ tries' = 0
    /\ pc' = "sag_preLo"
    /\ Evaluations(OuterEvaluations("solveP", 2))
    /\ tape' = Rotate(TapeFor(SagKey), 2)
    /\ UNCHANGED <<inputVars, effort, ui, line, other, trace, innerVars, guard, aExpand, ai, aKnown, result, outcome>>

\* a variant of SagPreLo that halves aLo whatever h(aLo) is
SagPreLo_WhileTries ==
    /\ pc = "sag_preLo"
    /\ tries < SagTriesCap
    /\ aLo' = Halved(aLo)
    /\ afLo' \in Draw(FV, 0)
    /\ tries' = tries + 1
    /\ Evaluations(OuterEvaluations("solveP", 1))
    /\ Drawn(1)
    /\ UNCHANGED <<inputVars, effort, ui, line, other, pc, trace, a, innerVars, aHi, afHi, guard, aExpand, ai, aKnown, result, outcome>>

\* lines 311-315
SagPreLo ==
    /\ pc = "sag_preLo"
    /\ ~isFinite(afLo) /\ tries < SagTriesCap
    /\ aLo' = Halved(aLo)
    /\ afLo' \in Draw(FV, 0)
    /\ tries' = tries + 1
    /\ Evaluations(OuterEvaluations("solveP", 1))
    /\ Drawn(1)
    /\ UNCHANGED <<inputVars, effort, ui, line, other, pc, trace, a, innerVars, aHi, afHi, guard, aExpand, ai, aKnown, result, outcome>>

\* line 316
SagPreLoDone ==
    /\ pc = "sag_preLo"
    /\ ~(~isFinite(afLo) /\ tries < SagTriesCap)
    /\ tries' = 0
    /\ pc' = "sag_preHi"
    /\ Evaluations(RoundsNotMade("solveP", SagTriesCap - tries))
    /\ Drawn(0)
    /\ UNCHANGED <<inputVars, effort, ui, line, other, trace, a, innerVars, aLo, aHi, afLo, afHi, guard, aExpand, ai, aKnown, result, outcome>>

\* lines 317-321
SagPreHi ==
    /\ pc = "sag_preHi"
    /\ ~isFinite(afHi) /\ tries < SagTriesCap
    /\ aHi' = Doubled(aHi)
    /\ afHi' \in Draw(FV, 0)
    /\ tries' = tries + 1
    /\ Evaluations(OuterEvaluations("solveP", 1))
    /\ Drawn(1)
    /\ UNCHANGED <<inputVars, effort, ui, line, other, pc, trace, a, innerVars, aLo, afLo, guard, aExpand, ai, aKnown, result, outcome>>

\* line 322 (tries is not read again)
SagPreHiDone ==
    /\ pc = "sag_preHi"
    /\ ~(~isFinite(afHi) /\ tries < SagTriesCap)
    /\ aExpand' = 0
    /\ tries' = 0
    /\ pc' = "sag_while"
    /\ Evaluations(RoundsNotMade("solveP", SagTriesCap - tries))
    /\ Drawn(0)
    /\ UNCHANGED <<inputVars, effort, ui, line, other, trace, a, innerVars, aLo, aHi, afLo, afHi, guard, ai, aKnown, result, outcome>>

\* Math.abs(x) < Math.abs(y) for two classes with x * y > 0: decided when one of
\* them is infinite, open when both are finite
AbsLess(x, y) ==
    IF ~isFinite(x) THEN {FALSE}
    ELSE IF ~isFinite(y) THEN {TRUE}
    ELSE BOOLEAN

\* lines 323-332
SagExpand ==
    /\ pc = "sag_while"
    /\ ProdPos(afLo, afHi) /\ aExpand < SagExpandCap
    /\ \E less \in DrawBool(AbsLess(afLo, afHi), 0) :
        IF less
        THEN aHi' = Doubled(aHi) /\ afHi' \in Draw(FV, 1) /\ UNCHANGED <<aLo, afLo>>
        ELSE aLo' = Halved(aLo) /\ afLo' \in Draw(FV, 1) /\ UNCHANGED <<aHi, afHi>>
    /\ aExpand' = aExpand + 1
    /\ Evaluations(OuterEvaluations("solveP", 1))
    /\ Drawn(2)
    /\ UNCHANGED <<inputVars, effort, ui, line, other, pc, trace, a, innerVars, guard, tries, ai, aKnown, result, outcome>>

\* the test of lines 333 and 277
NoBracket(lo, hi) == ProdPos(lo, hi) \/ ~isFinite(lo) \/ ~isFinite(hi)

\* lines 333-348: last resort, the parabola
SagNoBracket ==
    /\ pc = "sag_while"
    /\ ~(ProdPos(afLo, afHi) /\ aExpand < SagExpandCap)
    /\ NoBracket(afLo, afHi)
    /\ trace' = Append(trace, "Parabola")
    /\ OuterReset
    /\ Return(ParabolaPositions, "Parabola")
    /\ Evaluations(RoundsNotMade("solveP", SagExpandCap - aExpand))
    /\ Drawn(0)
    /\ UNCHANGED <<inputVars, effort, ui, line, other, a, innerVars>>

\* line 349 (expand is not read again)
SagBracketed ==
    /\ pc = "sag_while"
    /\ ~(ProdPos(afLo, afHi) /\ aExpand < SagExpandCap)
    /\ ~NoBracket(afLo, afHi)
    /\ \E m \in Mid(aLo.class, aHi.class) : a' = SearchedA(m)
    /\ ai' = 0
    /\ aExpand' = 0
    /\ pc' = "sag_for"
    /\ Evaluations(RoundsNotMade("solveP", SagExpandCap - aExpand))
    /\ Drawn(0)
    /\ aLo' = Bound(aLo.class) /\ aHi' = Bound(aHi.class)
    /\ UNCHANGED <<inputVars, effort, ui, line, other, trace, innerVars, afLo, afHi, guard, tries, aKnown, result, outcome>>

\* lines 350-363
SagBisect ==
    /\ pc = "sag_for"
    /\ ai < SagIterCap
    /\ \E f \in Draw(MV, 0) :
        IF AbsBelowTol(f)
        THEN /\ aKnown' = TRUE
             /\ aLo' = UnsetBound /\ aHi' = UnsetBound
             /\ afLo' = "unset" /\ afHi' = "unset" /\ ai' = 0
             /\ pc' = "sag_final"
             /\ a' = a
        ELSE /\ IF ProdNeg(f, afLo)
                THEN aHi' = Bound(ClassOf(a)) /\ afHi' = Stored(f) /\ UNCHANGED <<aLo, afLo>>
                ELSE aLo' = Bound(ClassOf(a)) /\ afLo' = Stored(f) /\ UNCHANGED <<aHi, afHi>>
             /\ \E m \in Mid(aLo'.class, aHi'.class) : a' = SearchedA(m)
             /\ ai' = ai + 1
             /\ UNCHANGED <<aKnown, pc>>
    /\ Evaluations(OuterEvaluations("solveP", 1)
                   + IF pc' # pc THEN RoundsNotMade("solveP", SagIterCap - ai - 1) ELSE 0)
    /\ Drawn(1)
    /\ UNCHANGED <<inputVars, effort, ui, line, other, trace, innerVars, guard, tries, aExpand, result, outcome>>

\* line 350: the loop ends after 40 steps, a is a midpoint that was not evaluated
\* (fLo, fHi and i are not read again)
SagCap ==
    /\ pc = "sag_for"
    /\ ~(ai < SagIterCap)
    /\ aKnown' = FALSE
    /\ aLo' = UnsetBound /\ aHi' = UnsetBound
    /\ afLo' = "unset" /\ afHi' = "unset" /\ ai' = 0
    /\ pc' = "sag_final"
    /\ Evaluations(0)
    /\ Drawn(0)
    /\ UNCHANGED <<inputVars, effort, ui, line, other, trace, a, innerVars, guard, tries, aExpand, result, outcome>>

\* line 364 after the break of line 353: h(a) was finite, so the same solveP(a)
\* does not return null
SagFinalKnown ==
    /\ pc = "sag_final"
    /\ aKnown
    /\ \E how \in Draw({"converged", "cap"}, 0) :
        /\ bRes' = how
        /\ fbAtB' \in Draw(IF how = "converged" THEN {"none", "within"} ELSE Dev, 1)
    /\ pc' = "sag_build"
    /\ Evaluations(SolveEvaluations("solveP"))
    /\ Drawn(2)
    /\ UNCHANGED <<inputVars, effort, ui, line, other, trace, a, fn, fLo, fHi, expand, i, outerVars, result, outcome>>

\* line 364 after 40 steps: solveP(a) runs at an a not evaluated before;
\* lines 265-269
SagFinalSolve ==
    /\ pc = "sag_final"
    /\ ~aKnown
    /\ fn' = "solveP"
    /\ fLo' \in Draw(FV, 0) /\ fHi' \in Draw(FV, 1)
    /\ expand' = 0
    /\ pc' = "solveP_while"
    /\ Evaluations(2)
    /\ Drawn(2)
    /\ UNCHANGED <<inputVars, effort, ui, line, other, trace, a, i, bRes, fbAtB, outerVars, result, outcome>>

\* lines 270-276: the loop condition does not test isFinite
solveP_Expand ==
    /\ pc = "solveP_while"
    /\ ProdPos(fLo, fHi) /\ expand < PExpandCap
    /\ fLo' \in Draw(FV, 0) /\ fHi' \in Draw(FV, 1)
    /\ expand' = expand + 1
    /\ Evaluations(2)
    /\ Drawn(2)
    /\ UNCHANGED <<inputVars, effort, ui, line, other, pc, trace, a, fn, i, bRes, fbAtB, outerVars, result, outcome>>

\* lines 277-279: return null
solveP_NotBracketed ==
    /\ pc = "solveP_while"
    /\ ~(ProdPos(fLo, fHi) /\ expand < PExpandCap)
    /\ NoBracket(fLo, fHi)
    /\ bRes' = "null"
    /\ fbAtB' = "none"
    /\ SolverReturns
    /\ pc' = "sag_build"
    /\ Evaluations(0)
    /\ Drawn(0)
    /\ UNCHANGED <<inputVars, effort, ui, line, other, trace, a, outerVars, result, outcome>>

\* line 280: the bisection starts (expand is not read again)
solveP_Bracketed ==
    /\ pc = "solveP_while"
    /\ ~(ProdPos(fLo, fHi) /\ expand < PExpandCap)
    /\ ~NoBracket(fLo, fHi)
    /\ i' = 0
    /\ expand' = 0
    /\ pc' = "solveP_for"
    /\ Evaluations(0)
    /\ Drawn(0)
    /\ UNCHANGED <<inputVars, effort, ui, line, other, trace, a, fn, fLo, fHi, bRes, fbAtB, outerVars, result, outcome>>

\* lines 280-293
solveP_Bisect ==
    /\ pc = "solveP_for"
    /\ i < PIterCap
    /\ \E f \in Draw(MV, 0) :
        IF AbsBelowTol(f)
        THEN /\ bRes' = "converged"
             /\ fbAtB' = DevOfConverged(f)
             /\ SolverReturns
             /\ pc' = "sag_build"
        ELSE /\ IF ProdNeg(f, fLo)
                THEN fHi' = Stored(f) /\ fLo' = fLo
                ELSE fLo' = Stored(f) /\ fHi' = fHi
             /\ i' = i + 1
             /\ UNCHANGED <<fn, expand, bRes, fbAtB, pc>>
    /\ Evaluations(1)
    /\ Drawn(1)
    /\ UNCHANGED <<inputVars, effort, ui, line, other, trace, a, outerVars, result, outcome>>

\* line 294
solveP_Cap ==
    /\ pc = "solveP_for"
    /\ ~(i < PIterCap)
    /\ bRes' = "cap"
    /\ fbAtB' \in Draw(Dev, 0)
    /\ SolverReturns
    /\ pc' = "sag_build"
    /\ Evaluations(0)
    /\ Drawn(1)
    /\ UNCHANGED <<inputVars, effort, ui, line, other, trace, a, outerVars, result, outcome>>

\* lines 365-380: p === null, last resort, the parabola again
SagInnerFailed ==
    /\ pc = "sag_build"
    /\ bRes = "null"
    /\ trace' = Append(trace, "Parabola")
    /\ OuterReset
    /\ Return(ParabolaPositions, "Parabola")
    /\ Evaluations(0)
    /\ Drawn(0)
    /\ UNCHANGED <<inputVars, effort, ui, line, other, a, innerVars>>

\* lines 381-382
SagReturn ==
    /\ pc = "sag_build"
    /\ bRes # "null"
    /\ \E side \in Draw(EndSide(fbAtB), 0) :
           Return(buildPositionsFromParams(a, bRes, fbAtB, side), "Sag")
    /\ Evaluations(0)
    /\ Drawn(0)
    /\ UNCHANGED <<inputVars, effort, ui, line, other, trace, a, innerVars, outerVars>>

-----------------------------------------------------------------------------

Next ==
    \/ ReturnDegenerate
    \/ ReduceFrame
    \/ PhysicsBegin
    \/ solveB_Expand
    \/ solveB_NotBracketed
    \/ solveB_Bracketed
    \/ solveB_Bisect
    \/ solveB_Cap
    \/ PhysicsReturn
    \/ LengthBegin
    \/ LengthExpand
    \/ LengthNoBracket
    \/ LengthBracketed
    \/ LengthBisect
    \/ LengthCap
    \/ LengthFinalKnown
    \/ LengthFinalSolve
    \/ solveBForA_Expand
    \/ solveBForA_NotBracketed
    \/ solveBForA_Bracketed
    \/ solveBForA_Bisect
    \/ solveBForA_Cap
    \/ LengthInnerFailed
    \/ LengthReturn
    \/ SagDispatch
    \/ createSagBased_Begin
    \/ SagPreLo
    \/ SagPreLoDone
    \/ SagPreHi
    \/ SagPreHiDone
    \/ SagExpand
    \/ SagNoBracket
    \/ SagBracketed
    \/ SagBisect
    \/ SagCap
    \/ SagFinalKnown
    \/ SagFinalSolve
    \/ solveP_Expand
    \/ solveP_NotBracketed
    \/ solveP_Bracketed
    \/ solveP_Bisect
    \/ solveP_Cap
    \/ SagInnerFailed
    \/ SagReturn

Spec == Init /\ [][Next]_vars

-----------------------------------------------------------------------------
(* The same call with its residual evaluations counted from below ("least")   *)
(* and from above ("most").                                                   *)

EvalCalls ==
    {<<Start, HighEnd, o>> :
        o \in {[mode |-> "physics"], [mode |-> "sag"],
               [mode |-> "length", lengthMeters |-> Num(12)]}}
    \cup {<<Start, Position(3, 0, 1), [mode |-> "length", lengthMeters |-> Num(12)]>>}

EvalInit ==
    /\ \E c \in EvalCalls : startPos = c[1] /\ endPos = c[2] /\ options = c[3]
    /\ effort \in {"least", "most"}
    /\ tape = <<>> /\ other = NoOther
    /\ CallBegins
    /\ NoCaller

EvalSpec == EvalInit /\ [][Next]_vars

-----------------------------------------------------------------------------
(* The calls of EvalCalls with the moves of the bounds of the outer searches   *)
(* followed: every aLo *= 0.5 and aHi *= 2 is kept as a power of 2.           *)

MoveInit ==
    /\ \E c \in EvalCalls : startPos = c[1] /\ endPos = c[2] /\ options = c[3]
    /\ effort = "moves"
    /\ tape = <<>> /\ other = NoOther
    /\ CallBegins
    /\ NoCaller

MoveSpec == MoveInit /\ [][Next]_vars

-----------------------------------------------------------------------------
(* Vocabulary of the properties *)

Done == pc = "done"
Outcomes == {"Degenerate", "Physics", "Length", "Sag", "Parabola"}

PhysicsPoints == {"solveB_while", "solveB_for", "physics_build"}
LengthPoints == {"length_while", "length_for", "length_final", "solveBForA_while",
                 "solveBForA_for", "length_build"}
SagPoints == {"sag_begin", "sag_preLo", "sag_preHi", "sag_while", "sag_for",
              "sag_final", "solveP_while", "solveP_for", "sag_build"}
ProgramPoints == {"start", "dispatch", "done"} \cup PhysicsPoints \cup LengthPoints \cup SagPoints

Last(s) == s[Len(s)]

-----------------------------------------------------------------------------
(* C1: a call never surfaces an error.  At every point of the call either    *)
(* the call has returned, with exactly one of the five outcomes and a         *)
(* sequence of points, or it has returned nothing yet and a next step exists: *)
(* no failure of a search (no bracket, a non-finite evaluation) leaves the    *)
(* call without a continuation.                                               *)
C1_NoErrorSurfaces ==
    /\ pc \in ProgramPoints
    /\ Done <=> outcome \in Outcomes
    /\ Done => Len(result.points) >= 1
    /\ ~Done => outcome = "none" /\ result = NoResult /\ ENABLED Next

\* a Length-mode call whose two failures were both recovered
C1_Witness ==
    Done /\ outcome = "Parabola" /\ mode = "length" /\ LengthGuard

-----------------------------------------------------------------------------
(* C2: the only strategy transitions are Length -> Sag and Sag -> Parabola.   *)
(* The strategies a call has entered are Physics alone, or a prefix of        *)
(* Length, Sag, Parabola, or of Sag, Parabola; the code that runs belongs to  *)
(* the strategy entered last, the parabola ends the call, and the outcome is  *)
(* the strategy entered last.                                                 *)
C2_OnlyFallbackTransitions ==
    /\ trace \in {<<>>, <<"Physics">>, <<"Length">>, <<"Length", "Sag">>,
                  <<"Length", "Sag", "Parabola">>, <<"Sag">>, <<"Sag", "Parabola">>}
    /\ pc \in PhysicsPoints => Last(trace) = "Physics"
    /\ pc \in LengthPoints => Last(trace) = "Length"
    /\ pc \in SagPoints => Last(trace) = "Sag"
    /\ mode = "physics" => trace \in {<<>>, <<"Physics">>}
    /\ (trace # <<>> /\ Last(trace) = "Parabola") => Done
    /\ (Done /\ outcome # "Degenerate") => outcome = Last(trace)

\* Length has handed over to Sag and Sag is running
C2_Witness ==
    trace = <<"Length", "Sag">> /\ pc = "sag_for"

-----------------------------------------------------------------------------
(* C3: when the horizontal span is below 0.1 the call returns exactly         *)
(* [startPos, endPos], in that order and without metadata, whatever the       *)
(* options are, and no strategy and no solver has run.                        *)
C3_DegenerateVerbatim ==
    (dx * dx + dy * dy < MinSpan * MinSpan) =>
        /\ pc \in {"start", "done"}
        /\ Done => /\ result.points = <<startPos, endPos>>
                   /\ result.metadata = <<>>
                   /\ outcome = "Degenerate"
        /\ trace = <<>>
        /\ fn = "none" /\ fLo = "unset" /\ fHi = "unset"
        /\ afLo = "unset" /\ afHi = "unset"

\* a span of 0.06 in Length mode with a valid target length
C3_Witness ==
    Done /\ dx * dx + dy * dy = 9 /\ LengthGuard /\ outcome = "Degenerate"

-----------------------------------------------------------------------------
NonDegenerate == dx * dx + dy * dy >= MinSpan * MinSpan
FirstPoint == result.points[1]
LastPoint == result.points[Len(result.points)]

(* C4: every call on a span of at least 0.1 returns metadata with its points, *)
(* whichever strategy produced them.  The parabola returns none.              *)
C4_MetadataAlways ==
    (Done /\ NonDegenerate) =>
        /\ Len(result.metadata) = 1
        /\ DOMAIN result.metadata[1] = {"a", "sag", "hTension", "linearWeight"}

-----------------------------------------------------------------------------
(* C5: on a span of at least 0.1 (and with at least one sampling interval)    *)
(* the first returned point is the start endpoint and the last returned point *)
(* is the end endpoint within 1e-3, on every path.  A b that is the default 0 *)
(* or the midpoint left by the iteration cap has an unbounded end residual.   *)
C5_EndpointsWithinTolerance ==
    (Done /\ NonDegenerate /\ numPoints >= 1) =>
        /\ FirstPoint.x = startPos.x * FirstPoint.den
        /\ FirstPoint.y = startPos.y * FirstPoint.den
        /\ FirstPoint.z.num = z0 * 100 * numPoints * numPoints
        /\ FirstPoint.z.dev \in {"none", "within"}
        /\ LastPoint.x = endPos.x * LastPoint.den
        /\ LastPoint.y = endPos.y * LastPoint.den
        /\ LastPoint.z.num = z1 * 100 * numPoints * numPoints
        /\ LastPoint.z.dev \in {"none", "within"}

-----------------------------------------------------------------------------
(* C6, as stated: in Physics mode, for any tension > 0 and any                *)
(* linearWeight > 0, the a of the metadata is tension / linearWeight.         *)
C6_AEqualsRatioAlways ==
    (Done /\ outcome = "Physics" /\ hTension > 0 /\ linearWeight > 0) =>
        result.metadata[1].a = [kind |-> "ratio", num |-> hTension, den |-> linearWeight]

(* C6, amended: in Physics mode the a of the metadata is tension divided by   *)
(* linearWeight when linearWeight is at least 1e-6, and tension divided by    *)
(* 1e-6 when it is smaller; a is set once, before the search for b, and no    *)
(* variable of a search for a is ever touched.                                *)
C6_AEqualsRatioAboveFloor ==
    /\ (Done /\ outcome = "Physics") =>
          result.metadata[1].a =
              [kind |-> "ratio", num |-> hTension,
               den |-> IF linearWeight >= 2 THEN linearWeight ELSE 2]
    /\ (mode = "physics" /\ pc \in PhysicsPoints \cup {"done"} /\ NonDegenerate) =>
          /\ a = [kind |-> "ratio", num |-> hTension,
                  den |-> IF linearWeight >= 2 THEN linearWeight ELSE 2]
          /\ afLo = "unset" /\ afHi = "unset"
          /\ guard = 0 /\ tries = 0 /\ aExpand = 0 /\ ai = 0

\* a Physics call with a weight at the floor has returned
C6_Witness ==
    Done /\ outcome = "Physics" /\ hTension > 0 /\ linearWeight = EpsWeight

-----------------------------------------------------------------------------
(* C7: in Physics mode, when the two endpoint values of the search for b are  *)
(* still of the same sign or non-finite and the loop is left, 30 doublings    *)
(* have been made, b is the default 0, the strategy and a are unchanged, and  *)
(* the next step returns the catenary built from that a and b = 0 as the      *)
(* Physics outcome.                                                           *)
C7_DefaultBZero ==
    /\ [][(pc = "solveB_while" /\ pc' # "solveB_while"
            /\ (ProdPos(fLo, fHi) \/ ~isFinite(fLo) \/ ~isFinite(fHi)))
          => (/\ expand = 30
              /\ pc' = "physics_build"
              /\ bRes' = "default0"
              /\ trace' = <<"Physics">>
              /\ a' = a)]_vars
    /\ [][(pc = "physics_build" /\ bRes = "default0")
          => (/\ pc' = "done"
              /\ outcome' = "Physics"
              /\ a.kind = "ratio"
              /\ \E side \in EndSide(fbAtB) :
                    result' = buildPositionsFromParams(a, "default0", fbAtB, side))]_vars
    /\ [](bRes = "default0" => trace = <<"Physics">>)

\* a Physics call has returned the catenary of b = 0
C7_Witness ==
    /\ Done /\ outcome = "Physics" /\ bRes = "default0"
    /\ numPoints >= 1 /\ LastPoint.z.cosh.b = "default0"

-----------------------------------------------------------------------------
(* C8: a Length-mode call leaves the Length strategy in one of two ways.  It  *)
(* hands over to the Sag strategy, with the arguments unchanged and the Sag   *)
(* strategy starting from its beginning, exactly when the bracket loop ends   *)
(* without a bracket (then after 20 rounds) or the final solve for b returned *)
(* null; otherwise it returns the catenary built from the a and b it solved.  *)
C8_LengthFallsBackExactly ==
    /\ [][(pc \in LengthPoints /\ pc' \notin LengthPoints)
          => IF \/ (pc = "length_while" /\ ~hasBracket(afLo, afHi))
                \/ (pc = "length_build" /\ bRes = "null")
             THEN /\ pc' = "sag_begin"
                  /\ trace' = <<"Length", "Sag">>
                  /\ pc = "length_while" => guard = 20
                  /\ afLo' = "unset" /\ afHi' = "unset" /\ ai' = 0 /\ aExpand' = 0
                  /\ tries' = 0
                  /\ outcome' = "none"
                  /\ UNCHANGED inputVars
             ELSE /\ pc' = "done"
                  /\ outcome' = "Length"
                  /\ bRes \in {"converged", "cap"}
                  /\ \E side \in EndSide(fbAtB) :
                        result' = buildPositionsFromParams(SearchedA("Pos"), bRes, fbAtB, side)
                  /\ UNCHANGED inputVars]_vars
    /\ [](pc \in LengthPoints => (LengthGuard /\ guard <= 20))
    /\ []((Done /\ NonDegenerate /\ LengthGuard) =>
            /\ trace[1] = "Length"
            /\ outcome = "Length" <=> Len(trace) = 1
            /\ outcome \in {"Sag", "Parabola"} <=> (Len(trace) >= 2 /\ trace[2] = "Sag"))

\* a Length-mode call has returned the result of the Sag strategy
C8_Witness ==
    Done /\ trace = <<"Length", "Sag">> /\ outcome = "Sag" /\ LengthGuard

-----------------------------------------------------------------------------
-----------------------------------------------------------------------------
\* the steps a call can still take: the loops left to run at their full
\* budgets, plus the budget left of the loop that is running
Measure ==
    CASE pc = "done" -> 0
      [] pc = "physics_build" -> 1
      [] pc = "sag_build" -> 1
      [] pc = "solveB_for" -> 2 + (BIterCap - i)
      [] pc = "solveB_while" -> 63 + (BExpandCap - expand)
      [] pc = "solveP_for" -> 2 + (PIterCap - i)
      [] pc = "solveP_while" -> 53 + (PExpandCap - expand)
      [] pc = "sag_final" -> 74
      [] pc = "sag_for" -> 75 + (SagIterCap - ai)
      [] pc = "sag_while" -> 116 + (SagExpandCap - aExpand)
      [] pc = "sag_preHi" -> 137 + (SagTriesCap - tries)
      [] pc = "sag_preLo" -> 143 + (SagTriesCap - tries)
      [] pc = "sag_begin" -> 149
      [] pc = "length_build" -> 150
      [] pc = "solveBForA_for" -> 151 + (BIterCap - i)
      [] pc = "solveBForA_while" -> 212 + (BExpandCap - expand)
      [] pc = "length_final" -> 243
      [] pc = "length_for" -> 244 + (LenIterCap - ai)
      [] pc = "length_while" -> 305 + (LenGuardCap - guard)
      [] pc = "dispatch" -> 326
      [] pc = "start" -> 327

(* C10: every call terminates.  Every step of a call lowers a natural number  *)
(* that starts at no more than 327, so no call takes more steps than that;    *)
(* and no loop counter passes its cap: 30 and 60 in the b search, 20 and 60   *)
(* in the Length outer search, 20 and 50 in the Sag inner search, 5, 5, 20    *)
(* and 40 in the Sag outer search.                                            *)
C10_EveryCallTerminates ==
    /\ [][Measure' < Measure]_vars
    /\ [](Measure \in 0..327)
    /\ [](Measure = 0 <=> Done)
    /\ [](fn \in {"solveB", "solveBForA"} => (expand <= 30 /\ i <= 60))
    /\ [](fn = "solveP" => (expand <= 20 /\ i <= 50))
    /\ [](pc \in LengthPoints => (guard <= 20 /\ ai <= 60))
    /\ [](pc \in SagPoints => (tries <= 5 /\ aExpand <= 20 /\ ai <= 40))

\* a Length-mode call that fell back to Sag, whose inner search has used its
\* whole expansion budget and is about to fail over to the parabola
C10_Witness ==
    /\ trace = <<"Length", "Sag">>
    /\ pc = "solveP_while" /\ expand = PExpandCap
    /\ ProdPos(fLo, fHi)

-----------------------------------------------------------------------------
(* C11, as stated: one call performs at most a few hundred residual           *)
(* evaluations.  Checked on the count from below: even when every inner solve *)
(* inside lengthResidual and h is counted with the 3 evaluations it cannot do *)
(* without, the count passes FewHundred.                                      *)
C11_FewHundredEvaluations ==
    effort = "least" => evals <= FewHundred

(* C11, amended: the evaluations of one call are bounded, by the caps of the  *)
(* loops, but in the thousands: at most 122 in Physics; in Length at most 102 *)
(* calls of lengthResidual, each one evaluation and an inner solve of at most *)
(* 122, and one more inner solve; in Sag at most 72 calls of h, each one      *)
(* evaluation and an inner solve of at most 92, and one more inner solve; so  *)
(* at most 12668 in Length, 6788 in Sag and 19456 in a Length-mode call that  *)
(* falls back to Sag.                                                         *)
C11_EvaluationsBounded ==
    /\ trace = <<"Physics">> => evals <= 2 + 2 * 30 + 60
    /\ trace = <<"Length">> => evals <= (2 + 2 * 20 + 60) * (1 + 122) + 122
    /\ (trace # <<>> /\ trace[1] = "Sag") => evals <= (2 + 5 + 5 + 20 + 40) * (1 + 92) + 92
    /\ evals <= 12668 + 6788
    /\ trace = <<>> => evals = 0

\* a Length-mode call that fell back to Sag has returned after certainly more
\* than FewHundred evaluations
C11_Witness ==
    /\ Done /\ effort = "least"
    /\ Len(trace) >= 2 /\ trace[1] = "Length" /\ trace[2] = "Sag"
    /\ evals > FewHundred

-----------------------------------------------------------------------------
CatenaryOutcomes == {"Physics", "Length", "Sag"}
BuildPoints == {"physics_build", "length_build", "sag_build"}

(* C12, as stated: in every output that is a catenary the height of the first *)
(* point is the start height z0, whatever a and b are.                        *)
C12_StartHeightAlways ==
    (Done /\ outcome \in CatenaryOutcomes /\ numPoints >= 1) =>
        /\ FirstPoint.z.dev = "none"
        /\ FirstPoint.z.num = z0 * HDen(numPoints)

(* C12 for a other than 0: in Physics, Length and Sag the samples are built   *)
(* in one last step, after a and b are fixed, with c = z0 - a * cosh(-b / a); *)
(* the height of the first point is then exactly z0, whether b               *)
(* is a converged root, the midpoint left by the iteration cap or the default *)
(* 0 of a failed search, and however far the last point is from z1.           *)
C12_StartHeightPinned ==
    /\ []((Done /\ outcome \in CatenaryOutcomes /\ numPoints >= 1
             /\ ~IsZero(result.metadata[1].a)) =>
            /\ FirstPoint.z.dev = "none"
            /\ FirstPoint.z.num = z0 * HDen(numPoints))
    /\ [][(pc \in BuildPoints /\ bRes # "null")
          => (/\ pc' = "done"
              /\ outcome' \in CatenaryOutcomes
              /\ bRes \in {"default0", "converged", "cap"}
              /\ \A k \in 1..Len(result'.points) :
                    numPoints >= 1 => result'.points[k].z.cosh = [a |-> a, b |-> bRes])]_vars
    /\ [][(pc \in PhysicsPoints \cup {"length_final", "solveBForA_while", "solveBForA_for",
                                       "sag_final", "solveP_while", "solveP_for"}
           /\ pc' \notin {"done", "sag_begin"})
          => a' = a]_vars

\* a Physics call whose search for b failed has returned: its last point is
\* off the end height, its first point is at the start height
C12_Witness ==
    /\ Done /\ outcome = "Physics" /\ bRes = "default0" /\ fbAtB = "beyond"
    /\ numPoints >= 1 /\ hTension # 0 /\ FirstPoint.z.dev = "none"

-----------------------------------------------------------------------------
\* a > 0: the quotient of line 85 has a positive denominator
APositive(aa) ==
    CASE aa.kind = "ratio" -> aa.num > 0 /\ aa.den > 0
      [] aa.kind = "searched" -> aa.class = "Pos"
      [] OTHER -> FALSE

LengthSearchPoints == {"length_while", "length_for"}
SagSearchPoints == {"sag_preLo", "sag_preHi", "sag_while", "sag_for"}
AfterBracketPoints == {"length_for", "length_final", "length_build",
                       "sag_for", "sag_final", "sag_build"}

(* C13, as stated: every output that carries catenary parameters has a > 0,   *)
(* in Physics for every tension and weight the caller can pass.               *)
C13_APositiveAlways ==
    (Done /\ outcome \in CatenaryOutcomes) => APositive(result.metadata[1].a)

(* C13 by strategy: in Physics a = hTension / max(1e-6, linearWeight) has the *)
(* sign of hTension, so a > 0 exactly when the tension is positive; in Length *)
(* and Sag both bounds of the search are positive after every halving and     *)
(* doubling, every midpoint of the bisection is positive, and the a of the    *)
(* output is positive.                                                        *)
C13_APositiveForPositiveTension ==
    /\ []((Done /\ outcome = "Physics") =>
            /\ result.metadata[1].a = PhysicsA
            /\ APositive(result.metadata[1].a) <=> hTension > 0)
    /\ []((Done /\ outcome \in {"Length", "Sag"}) => APositive(result.metadata[1].a))
    /\ [](pc \in LengthSearchPoints \cup SagSearchPoints => (aLo.class = "Pos" /\ aHi.class = "Pos"))
    /\ []((pc \in AfterBracketPoints \/ fn \in {"solveBForA", "solveP"}) => APositive(a))

\* the bisection for a in Length has made all its steps
C13_Witness ==
    /\ pc = "length_for" /\ ai = LenIterCap
    /\ a = SearchedA("Pos") /\ aLo.class = "Pos" /\ aHi.class = "Pos"

-----------------------------------------------------------------------------
\* the horizontal offset of sample k from the start point, times its
\* denominator: (xLocal - p0.x, yLocal - p0.y) = (dirX, dirY) * x
OffsetX(k) == result.points[k].x - startPos.x * result.points[k].den
OffsetY(k) == result.points[k].y - startPos.y * result.points[k].den

(* C14: every output on a span of at least 0.1 has exactly numPoints + 1      *)
(* points; sample i (i = 0..N) lies at the horizontal offset (i / N) * (dx,   *)
(* dy) from the start point, i.e. at x = t * L along the direction (dx, dy) / *)
(* L with t = i / N, and the samples advance strictly along that direction,   *)
(* whether the catenary sampler or the parabola produced them.  (With N = 0   *)
(* the one sample is taken at t = 0 / 0.)                                     *)
C14_UniformSamples ==
    (Done /\ NonDegenerate) =>
        /\ outcome \in CatenaryOutcomes \cup {"Parabola"}
        /\ Len(result.points) = numPoints + 1
        /\ \A k \in 1..Len(result.points) :
              /\ result.points[k].den = numPoints
              /\ numPoints >= 1 =>
                    /\ OffsetX(k) = dx * (k - 1)
                    /\ OffsetY(k) = dy * (k - 1)
        /\ \A k \in 1..(Len(result.points) - 1) :
              (OffsetX(k + 1) - OffsetX(k)) * dx + (OffsetY(k + 1) - OffsetY(k)) * dy > 0

\* the parabola fallback has returned three or more samples
C14_Witness ==
    /\ Done /\ NonDegenerate /\ outcome = "Parabola"
    /\ numPoints >= 2 /\ Len(result.points) = numPoints + 1

-----------------------------------------------------------------------------
(* One call after another: createTransmissionLine is called again when it has *)
(* returned, with the same endpoints, and with options that are the same or   *)
(* differ in one input that belongs to another mode.                          *)

\* lines 11-16: the inputs each mode has of its own
ModeInputs(m) ==
    CASE m = "physics" -> {"hTension", "linearWeight"}
      [] m = "length" -> {"lengthMeters"}
      [] OTHER -> {"sagRatio"}
OtherModeInputs(m) == {"hTension", "linearWeight", "lengthMeters", "sagRatio"} \ ModeInputs(m)

\* another value for the input k
Another(k) ==
    CASE k = "hTension" -> 2
      [] k = "linearWeight" -> 1
      [] k = "lengthMeters" -> Num(4)
      [] OTHER -> 20

\* the option object o with the input k replaced
With(o, k) == [f \in DOMAIN o \cup {k} |-> IF f = k THEN Another(k) ELSE o[f]]

TwiceCalls ==
    {<<Start, HighEnd, o>> :
        o \in {[mode |-> "physics", hTension |-> 3, linearWeight |-> 2, numPoints |-> 2],
               [mode |-> "sag", sagRatio |-> 10, numPoints |-> 2],
               [mode |-> "length", lengthMeters |-> Num(12), sagRatio |-> 10, numPoints |-> 2]}}
    \cup {<<Start, Position(3, 0, 1), [mode |-> "sag"]>>}

TwiceInit ==
    /\ \E c \in TwiceCalls : startPos = c[1] /\ endPos = c[2] /\ options = c[3]
    /\ effort = "off"
    /\ tape \in Tapes \cup {<<>>}
    /\ other = [NoOther EXCEPT !.base = tape]
    /\ CallBegins
    /\ NoCaller

\* the locals of a call as its body starts
NewLocals ==
    /\ pc' = "start"
    /\ trace' = <<>>
    /\ a' = UnsetA
    /\ SolverReturns
    /\ bRes' = "none" /\ fbAtB' = "none"
    /\ OuterReset
    /\ result' = NoResult
    /\ outcome' = "none"
    /\ evals' = 0

\* the caller calls again: the locals of the new call are new (lines 11-36 declare
\* them with const / let inside the function)
CallAgain ==
    /\ pc = "done"
    /\ other.base # <<>>
    /\ other.earlier = <<>> /\ other.waiting = <<>>
    /\ \E o \in {options} \cup {With(options, k) : k \in OtherModeInputs(mode)} :
          options' = o
    /\ other' = [other EXCEPT !.earlier =
                    <<[options |-> options, result |-> result, outcome |-> outcome]>>]
    /\ NewLocals
    /\ UNCHANGED <<startPos, endPos, effort, ui, line, tape>>

TwiceNext == Next \/ CallAgain
TwiceSpec == TwiceInit /\ [][TwiceNext]_vars

Second == Len(other.earlier) = 1
First == other.earlier[1]
Replayed == other.base # <<>>

-----------------------------------------------------------------------------
\* lines 11-15: the value a call reads for the input k
InputOf(o, k) ==
    CASE k = "hTension" -> Opt(o, k, DefaultHTension)
      [] k = "linearWeight" -> Opt(o, k, DefaultLinearWeight)
      [] k = "lengthMeters" -> Opt(o, k, Undefined)
      [] OTHER -> Opt(o, k, DefaultSagPct)
\* the inputs in which the second call differs from the first
Changed ==
    {k \in {"hTension", "linearWeight", "lengthMeters", "sagRatio"} :
        InputOf(options, k) # InputOf(First.options, k)}

(* C15, as stated: the output of a call, points and metadata, is the same     *)
(* when only inputs that belong to the other modes are changed.               *)
C15_OtherInputsIgnored ==
    (Done /\ Second /\ Replayed) =>
        /\ result = First.result
        /\ outcome = First.outcome

(* C15, amended: a Physics call returns the same output whatever sagRatio and *)
(* lengthMeters are; in Length and Sag mode the strategy taken, the points    *)
(* and the a and sag of the metadata are the same whatever hTension and       *)
(* linearWeight are, while the metadata's linearWeight is the one passed; a   *)
(* Sag call ignores lengthMeters; a Length call ignores sagRatio when its     *)
(* own search succeeds.                                                       *)
C15_OwnInputsDecideTheCurve ==
    (Done /\ Second /\ Replayed) =>
        /\ mode = "physics" => (result = First.result /\ outcome = First.outcome)
        /\ (mode \in {"sag", "length"} /\ Changed \subseteq {"hTension", "linearWeight"}) =>
              /\ outcome = First.outcome
              /\ result.points = First.result.points
              /\ Len(result.metadata) = Len(First.result.metadata)
              /\ result.metadata # <<>> =>
                    /\ result.metadata[1].a = First.result.metadata[1].a
                    /\ result.metadata[1].sag = First.result.metadata[1].sag
                    /\ result.metadata[1].linearWeight = linearWeight
        /\ (mode = "sag" /\ Changed \subseteq {"lengthMeters"}) =>
              (result = First.result /\ outcome = First.outcome)
        /\ (mode = "length" /\ Changed \subseteq {"sagRatio"} /\ First.outcome = "Length") =>
              (result = First.result /\ outcome = First.outcome)

\* a Sag call made again with another linearWeight has returned the same
\* points with other metadata
C15_Witness ==
    /\ Done /\ Second /\ Replayed
    /\ mode = "sag" /\ Changed = {"linearWeight"} /\ outcome = "Sag"
    /\ result.points = First.result.points
    /\ result # First.result

-----------------------------------------------------------------------------
(* Two calls at once: the steps of two calls are taken in any order.  A call  *)
(* that is not running keeps its arguments and locals in its own activation   *)
(* (the const / let bindings of lines 11-36 and of the nested functions).     *)

\* the activation of the running call
Frame ==
    [id |-> other.id,
     startPos |-> startPos,
     endPos |-> endPos,
     options |-> options,
     pc |-> pc,
     trace |-> trace,
     a |-> a,
     fn |-> fn,
     fLo |-> fLo,
     fHi |-> fHi,
     expand |-> expand,
     i |-> i,
     bRes |-> bRes,
     fbAtB |-> fbAtB,
     aLo |-> aLo,
     aHi |-> aHi,
     afLo |-> afLo,
     afHi |-> afHi,
     guard |-> guard,
     tries |-> tries,
     aExpand |-> aExpand,
     ai |-> ai,
     aKnown |-> aKnown,
     result |-> result,
     outcome |-> outcome,
     evals |-> evals,
     tape |-> tape]

\* the activation of a call that has not taken a step
BeginFrame(id, c, t) ==
    [id |-> id, startPos |-> c[1], endPos |-> c[2], options |-> c[3],
     pc |-> "start", trace |-> <<>>, a |-> UnsetA, fn |-> "none",
     fLo |-> "unset", fHi |-> "unset", expand |-> 0, i |-> 0,
     bRes |-> "none", fbAtB |-> "none", aLo |-> UnsetBound, aHi |-> UnsetBound,
     afLo |-> "unset", afHi |-> "unset", guard |-> 0, tries |-> 0, aExpand |-> 0,
     ai |-> 0, aKnown |-> FALSE, result |-> NoResult, outcome |-> "none",
     evals |-> 0, tape |-> t]

PairCalls ==
    {<<<<Start, HighEnd, [mode |-> "physics", hTension |-> 3, linearWeight |-> 2, numPoints |-> 2]>>,
       <<Start, HighEnd, [mode |-> "length", lengthMeters |-> Num(12), numPoints |-> 1]>>>>,
     <<<<Start, HighEnd, [mode |-> "sag", sagRatio |-> 10, numPoints |-> 2]>>,
       <<Start, HighEnd, [mode |-> "sag", sagRatio |-> 10, numPoints |-> 2]>>>>,
     <<<<Start, Position(3, 0, 1), [mode |-> "sag"]>>,
       <<Start, Position(3, 4, 0), [mode |-> "sag", sagRatio |-> 10, numPoints |-> 1]>>>>}

\* two calls are made: the first is about to start, the second waits.  With the
\* empty tape (any residual value) one call is made.
PairInit ==
    /\ \E p \in PairCalls :
        \/ /\ startPos = p[1][1] /\ endPos = p[1][2] /\ options = p[1][3]
           /\ tape \in Tapes
           /\ other = [base |-> tape, earlier |-> <<>>, id |-> 1,
                       waiting |-> <<BeginFrame(2, p[2], tape)>>]
        \/ \E c \in {p[1], p[2]} :
              /\ startPos = c[1] /\ endPos = c[2] /\ options = c[3]
              /\ tape = <<>>
              /\ other = NoOther
    /\ effort = "off"
    /\ CallBegins
    /\ NoCaller

\* both calls have been run one after the other
Interleaving == Len(other.earlier) = 2

\* a variant of Switch under which the two calls share the variable a
Switch_SharedA ==
    /\ other.waiting # <<>>
    /\ Interleaving \/ (pc = "done" /\ other.waiting[1].pc # "done")
    /\ LET f == other.waiting[1] IN
          /\ startPos' = f.startPos
          /\ endPos' = f.endPos
          /\ options' = f.options
          /\ pc' = f.pc
          /\ trace' = f.trace
          /\ fn' = f.fn
          /\ fLo' = f.fLo
          /\ fHi' = f.fHi
          /\ expand' = f.expand
          /\ i' = f.i
          /\ bRes' = f.bRes
          /\ fbAtB' = f.fbAtB
          /\ aLo' = f.aLo
          /\ aHi' = f.aHi
          /\ afLo' = f.afLo
          /\ afHi' = f.afHi
          /\ guard' = f.guard
          /\ tries' = f.tries
          /\ aExpand' = f.aExpand
          /\ ai' = f.ai
          /\ aKnown' = f.aKnown
          /\ result' = f.result
          /\ outcome' = f.outcome
          /\ evals' = f.evals
          /\ tape' = f.tape
    /\ a' = a
    /\ other' = [other EXCEPT !.waiting = <<Frame>>, !.id = other.waiting[1].id]
    /\ UNCHANGED <<effort, ui, line>>

\* the running call is suspended and the waiting call goes on: while the calls
\* are run one after the other, only when the running call has returned
Switch ==
    /\ other.waiting # <<>>
    /\ Interleaving \/ (pc = "done" /\ other.waiting[1].pc # "done")
    /\ LET f == other.waiting[1] IN
          /\ startPos' = f.startPos
          /\ endPos' = f.endPos
          /\ options' = f.options
          /\ pc' = f.pc
          /\ trace' = f.trace
          /\ a' = f.a
          /\ fn' = f.fn
          /\ fLo' = f.fLo
          /\ fHi' = f.fHi
          /\ expand' = f.expand
          /\ i' = f.i
          /\ bRes' = f.bRes
          /\ fbAtB' = f.fbAtB
          /\ aLo' = f.aLo
          /\ aHi' = f.aHi
          /\ afLo' = f.afLo
          /\ afHi' = f.afHi
          /\ guard' = f.guard
          /\ tries' = f.tries
          /\ aExpand' = f.aExpand
          /\ ai' = f.ai
          /\ aKnown' = f.aKnown
          /\ result' = f.result
          /\ outcome' = f.outcome
          /\ evals' = f.evals
          /\ tape' = f.tape
    /\ other' = [other EXCEPT !.waiting = <<Frame>>, !.id = other.waiting[1].id]
    /\ UNCHANGED <<effort, ui, line>>

\* what a call returned
Returned(f) == [options |-> f.options, result |-> f.result, outcome |-> f.outcome]

\* both calls have returned, one after the other: the same two calls are made
\* again, to be interleaved
Restart ==
    /\ ~Interleaving
    /\ pc = "done" /\ other.waiting # <<>> /\ other.waiting[1].pc = "done"
    /\ LET f1 == IF other.id = 1 THEN Frame ELSE other.waiting[1]
           f2 == IF other.id = 2 THEN Frame ELSE other.waiting[1]
       IN /\ other' = [other EXCEPT
                          !.earlier = <<Returned(f1), Returned(f2)>>,
                          !.id = 1,
                          !.waiting = <<BeginFrame(2, <<f2.startPos, f2.endPos, f2.options>>,
                                                   other.base)>>]
          /\ startPos' = f1.startPos /\ endPos' = f1.endPos /\ options' = f1.options
    /\ NewLocals
    /\ tape' = other.base
    /\ UNCHANGED <<effort, ui, line>>

PairNext == Next \/ Switch \/ Restart
PairSpec == PairInit /\ [][PairNext]_vars

-----------------------------------------------------------------------------
-----------------------------------------------------------------------------
(* C19: the Length strategy is entered only with a valid target length.  A    *)
(* call with mode "length" whose lengthMeters is absent, not a number, NaN,   *)
(* infinite, zero or negative never stands at a point of the Length search    *)
(* and never records Length among its strategies; it is taken by the Sag      *)
(* strategy, always has a next step until it returns, and returns Degenerate, *)
(* Sag or Parabola.  A call that is in the Length search has mode "length"    *)
(* and a finite positive number as lengthMeters.                              *)
C19_LengthOnlyWithValidTarget ==
    /\ (mode = "length" /\ (\/ lengthMeters.type # "number"
                            \/ lengthMeters.cls # "finite"
                            \/ lengthMeters.v <= 0)) =>
            /\ pc \notin LengthPoints
            /\ \A k \in 1..Len(trace) : trace[k] # "Length"
            /\ trace # <<>> => trace[1] = "Sag"
            /\ ~Done => ENABLED Next
            /\ Done => outcome \in {"Degenerate", "Sag", "Parabola"}
    /\ (pc \in LengthPoints \/ (trace # <<>> /\ trace[1] = "Length")) =>
            /\ mode = "length"
            /\ lengthMeters.type = "number" /\ lengthMeters.cls = "finite"
            /\ lengthMeters.v > 0

\* a call in mode "length" without a usable lengthMeters has returned the
\* catenary of the Sag strategy
C19_Witness ==
    /\ Done /\ NonDegenerate /\ mode = "length" /\ outcome = "Sag"
    /\ lengthMeters \in {Undefined, StringValue, NaNValue, InfinityValue, Num(0), Num(-4)}

-----------------------------------------------------------------------------
\* the sampled curve of a returned catenary: zChord - zCurve at each of its points
SampleBelow == [k \in 1..Len(result.points) |-> result.points[k].z.below]

-----------------------------------------------------------------------------
\* two function values of opposite sign, +Infinity counting as positive
Opposite(v1, v2) ==
    \/ (IsNegative(v1) /\ IsPositive(v2))
    \/ (IsPositive(v1) /\ IsNegative(v2))

InnerBisections == {"solveB_for", "solveBForA_for", "solveP_for"}
OuterBisections == {"length_for", "sag_for"}

(* C21: a step of a bisection loop that starts from two bounds whose values   *)
(* have opposite signs and stays in the loop leaves two bounds whose values   *)
(* have opposite signs, whatever the value at the midpoint was: in the b      *)
(* searches of Physics and Length and the vertex search of Sag, and in the    *)
(* outer searches for a of Length and Sag.                                    *)
C21_BisectionKeepsBracket ==
    /\ [][(pc \in InnerBisections /\ pc' = pc /\ Opposite(fLo, fHi))
            => Opposite(fLo', fHi')]_vars
    /\ [][(pc \in OuterBisections /\ pc' = pc /\ Opposite(afLo, afHi))
            => Opposite(afLo', afHi')]_vars

(* C21 for midpoint values that are numbers: a step that stores a finite      *)
(* value, and in the outer search of Sag also one that stores +Infinity,      *)
(* keeps the signs of the two bounds opposite.  In the outer search of Length *)
(* +Infinity always replaces the value at aLo, which keeps the bracket when   *)
(* the value at aHi is negative.                                              *)
C21_FiniteMidpointKeepsBracket ==
    /\ [][(pc \in InnerBisections /\ pc' = pc /\ Opposite(fLo, fHi)
            /\ isFinite(fLo') /\ isFinite(fHi'))
            => Opposite(fLo', fHi')]_vars
    /\ [][(pc = "sag_for" /\ pc' = pc /\ Opposite(afLo, afHi)
            /\ afLo' # "NaN" /\ afHi' # "NaN" /\ afLo' # "NInf" /\ afHi' # "NInf")
            => Opposite(afLo', afHi')]_vars
    /\ [][(pc = "length_for" /\ pc' = pc /\ Opposite(afLo, afHi)
            /\ afLo' # "NaN" /\ afHi' # "NaN" /\ afLo' # "NInf" /\ afHi' # "NInf"
            /\ (afLo' = "PInf" => IsNegative(afHi)))
            => Opposite(afLo', afHi')]_vars

\* a bisection for b has made steps and its bounds still bracket the root
C21_Witness ==
    /\ pc \in InnerBisections /\ i >= 2 /\ Opposite(fLo, fHi)

-----------------------------------------------------------------------------
\* two finite endpoint values of opposite sign
ValidBracket(v1, v2) == isFinite(v1) /\ isFinite(v2) /\ Opposite(v1, v2)

InnerExpansions == {"solveB_while", "solveBForA_while", "solveP_while"}

(* C22: a search leaves its expansion loop in one of two ways.  It reports    *)
(* failure (0 in Physics, null in Length and Sag, the parabola in the outer   *)
(* search of Sag) exactly when the two endpoint values are not a valid        *)
(* bracket, two finite values of opposite sign; otherwise it starts the       *)
(* bisection, which therefore never starts from anything but a valid bracket. *)
C22_FailureExactlyWithoutBracket ==
    /\ [][(pc \in InnerExpansions /\ pc' # pc) =>
            /\ bRes' \in {"default0", "null"} <=> ~ValidBracket(fLo, fHi)
            /\ pc' \in InnerBisections <=> ValidBracket(fLo, fHi)]_vars
    /\ [][(pc = "sag_while" /\ pc' # pc) =>
            /\ outcome' = "Parabola" <=> ~ValidBracket(afLo, afHi)
            /\ pc' = "sag_for" <=> ValidBracket(afLo, afHi)]_vars

(* C22 as the code tests it: failure is reported exactly when the product of  *)
(* the endpoint values is positive or one of them is not finite, and in the b *)
(* searches of Physics and Length only after all 30 doublings; the bisection  *)
(* starts from two finite values whose product is not positive, so also from  *)
(* an endpoint value of 0.                                                    *)
C22_FailureExactlyOnTest ==
    /\ [][(pc \in InnerExpansions /\ pc' # pc) =>
            /\ bRes' \in {"default0", "null"} <=> NoBracket(fLo, fHi)
            /\ pc' \in InnerBisections <=> ~NoBracket(fLo, fHi)
            /\ (bRes' \in {"default0", "null"} /\ pc # "solveP_while") => expand = BExpandCap
            /\ (bRes' = "null" /\ pc = "solveP_while" /\ isFinite(fLo) /\ isFinite(fHi))
                    => expand = PExpandCap]_vars
    /\ [][(pc = "sag_while" /\ pc' # pc) =>
            /\ outcome' = "Parabola" <=> NoBracket(afLo, afHi)
            /\ pc' = "sag_for" <=> ~NoBracket(afLo, afHi)
            /\ (outcome' = "Parabola" /\ isFinite(afLo) /\ isFinite(afHi))
                    => aExpand = SagExpandCap]_vars

\* a bisection for b is running from an endpoint value of 0
C22_Witness ==
    /\ pc \in InnerBisections /\ i = 0 /\ "Zero" \in {fLo, fHi}

-----------------------------------------------------------------------------
(* C23: in the outer search of Length a failed inner solve gives the residual *)
(* +Infinity, and +Infinity counts as positive: the two residuals are         *)
(* accepted as a bracket exactly when one is negative and the other is        *)
(* positive or +Infinity.  Two +Infinity values, +Infinity with a positive    *)
(* value, a pair with a NaN and a pair with a 0 are not a bracket.  The       *)
(* bisection for a is entered exactly from an accepted pair, and a pair that  *)
(* is not accepted is widened or, after 20 rounds, given up.                  *)
C23_InfinityCountsAsPositive ==
    /\ [](pc = "length_while" =>
            /\ hasBracket(afLo, afHi) <=>
                    \/ (IsNegative(afLo) /\ afHi \in {"PosS", "Pos", "PInf"})
                    \/ (IsNegative(afHi) /\ afLo \in {"PosS", "Pos", "PInf"})
            /\ (afLo = "PInf" /\ afHi = "PInf") => ~hasBracket(afLo, afHi)
            /\ ("PInf" \in {afLo, afHi} /\ IsPositive(afLo) /\ IsPositive(afHi))
                    => ~hasBracket(afLo, afHi)
            /\ "NaN" \in {afLo, afHi} => ~hasBracket(afLo, afHi)
            /\ "Zero" \in {afLo, afHi} => ~hasBracket(afLo, afHi))
    /\ [][(pc = "length_while" /\ pc' # pc) =>
            (pc' = "length_for" <=> Opposite(afLo, afHi))]_vars
    /\ [][(pc = "length_while" /\ pc' = pc) =>
            (~Opposite(afLo, afHi) /\ guard' = guard + 1 /\ guard' <= LenGuardCap)]_vars

\* the bisection for a has started from +Infinity at aLo and a negative value
\* at aHi
C23_Witness ==
    /\ pc = "length_for" /\ ai = 0 /\ afLo = "PInf" /\ IsNegative(afHi)

-----------------------------------------------------------------------------
(* The bounds of the outer searches as numbers *)

\* x / 2^k for k >= 0, rounded down
RECURSIVE HalvedTimes(_, _)
HalvedTimes(x, k) == IF k <= 0 THEN x ELSE HalvedTimes(x \div 2, k - 1)

\* loBase * 2^lo.exp < hiBase * 2^hi.exp, for whole numbers loBase and hiBase
BoundLess(lo, loBase, hi, hiBase) ==
    IF hi.exp >= lo.exp
    THEN HalvedTimes(loBase, hi.exp - lo.exp) < hiBase
    ELSE loBase < HalvedTimes(hiBase + 2 ^ (lo.exp - hi.exp) - 1, lo.exp - hi.exp)

\* line 189 and line 190 times 600, in the units of MinSpan
LengthLoBase == IF L > 600 * MinSpan THEN L ELSE 600 * MinSpan
LengthHiBase == 600 * 1000 * L

\* 0 < aLo < aHi at the bracket loop of lines 205-220: a bound that starts at
\* 0.1 or more is positive after LenGuardCap halvings
LengthOrdered ==
    /\ aLo.class = "Pos" /\ aHi.class = "Pos"
    /\ LengthLoBase > 0 /\ aLo.exp >= -LenGuardCap
    /\ BoundLess(aLo, LengthLoBase, aHi, LengthHiBase)

\* C24: while the Length outer search has no bracket, a round with both
\* residuals positive doubles aHi and leaves aLo alone, a round with both
\* negative halves aLo and leaves aHi alone, any other round halves aLo and
\* doubles aHi; the search starts from [max(L/600, 0.1), 1000 L], makes at
\* most LenGuardCap rounds, and 0 < aLo < aHi holds throughout
C24_LengthExpansionMovesTheMissingSide ==
    [][/\ (pc = "dispatch" /\ pc' = "length_while")
            => aLo' = Bound("Pos") /\ aHi' = Bound("Pos") /\ guard' = 0
       /\ (pc = "length_while" /\ pc' = "length_while")
            => /\ ~hasBracket(afLo, afHi)
               /\ guard' = guard + 1 /\ guard' <= LenGuardCap
               /\ aLo'.class = aLo.class /\ aHi'.class = aHi.class
               /\ IF IsPositive(afLo) /\ IsPositive(afHi)
                  THEN aHi'.exp = aHi.exp + 1 /\ aLo' = aLo /\ afLo' = afLo
                  ELSE IF IsNegative(afLo) /\ IsNegative(afHi)
                  THEN aLo'.exp = aLo.exp - 1 /\ aHi' = aHi /\ afHi' = afHi
                  ELSE aLo'.exp = aLo.exp - 1 /\ aHi'.exp = aHi.exp + 1
       /\ pc' = "length_while" => LengthOrdered'
      ]_vars

C24_Witness ==
    /\ effort = "moves" /\ pc = "length_while" /\ guard = LenGuardCap
    /\ aLo.exp < 0 /\ aHi.exp > -aLo.exp /\ aLo.exp - aHi.exp > -2 * LenGuardCap
    /\ LengthOrdered

\* the phases of the Sag outer search in which a bound is moved (lines 311-332)
SagPhases == {"sag_preLo", "sag_preHi", "sag_while"}

\* C25: the Sag outer search starts from [max(0.1, 0.01 L), 100 L]; before the
\* expansion a bound is moved only while its value is not finite, at most
\* SagTriesCap times each; the expansion makes at most SagExpandCap steps, each
\* moving exactly one bound; a move halves aLo or doubles aHi
C25_SagBoundsOnlyWiden ==
    [][/\ (pc = "sag_begin" /\ pc' = "sag_preLo")
            => aLo' = Bound("Pos") /\ aHi' = Bound("Pos") /\ tries' = 0
       /\ (pc = "sag_preLo" /\ pc' = "sag_preLo")
            => /\ ~isFinite(afLo)
               /\ tries' = tries + 1 /\ tries' <= SagTriesCap
               /\ aLo'.exp = aLo.exp - 1 /\ aHi' = aHi /\ afHi' = afHi
       /\ (pc = "sag_preLo" /\ pc' = "sag_preHi") => tries' = 0
       /\ (pc = "sag_preHi" /\ pc' = "sag_preHi")
            => /\ ~isFinite(afHi)
               /\ tries' = tries + 1 /\ tries' <= SagTriesCap
               /\ aHi'.exp = aHi.exp + 1 /\ aLo' = aLo /\ afLo' = afLo
       /\ (pc = "sag_preHi" /\ pc' = "sag_while") => aExpand' = 0
       /\ (pc = "sag_while" /\ pc' = "sag_while")
            => /\ aExpand' = aExpand + 1 /\ aExpand' <= SagExpandCap
               /\ \/ aLo'.exp = aLo.exp - 1 /\ aHi' = aHi /\ afHi' = afHi
                  \/ aHi'.exp = aHi.exp + 1 /\ aLo' = aLo /\ afLo' = afLo
       /\ (pc \in SagPhases /\ pc' \in SagPhases)
            => /\ aLo'.class = aLo.class /\ aHi'.class = aHi.class
               /\ aLo'.exp <= aLo.exp /\ aHi'.exp >= aHi.exp
               /\ aLo'.exp >= -(SagTriesCap + SagExpandCap)
               /\ aHi'.exp <= SagTriesCap + SagExpandCap
      ]_vars

C25_Witness ==
    /\ effort = "moves" /\ pc = "sag_while" /\ aExpand = SagExpandCap
    /\ aLo.exp < -SagTriesCap /\ aHi.exp > SagTriesCap

-----------------------------------------------------------------------------
(* solveB() and solveBForA(a) on the same a, L and dz: the b solve of a        *)
(* Physics call is run, then solveBForA is run as line 248 runs it, at the a   *)
(* of the Physics call and on the same values of fb.                           *)

SolveCalls ==
    {<<Start, e, [mode |-> "physics", hTension |-> t]>> : e \in SpanEnds, t \in {3, 4}}

SolveInit ==
    /\ \E c \in SolveCalls : startPos = c[1] /\ endPos = c[2] /\ options = c[3]
    /\ effort = "most"
    /\ tape \in Tapes
    /\ other = [NoOther EXCEPT !.base = tape]
    /\ CallBegins
    /\ NoCaller

\* what a b solve returned and the number of evaluations of fb it made
Solved == [bRes |-> bRes, fbAtB |-> fbAtB, evals |-> evals]

\* line 248 with the a of line 85: solveBForA(a) is about to run; its fb
\* (lines 139-143) is the fb of line 89
solveBForA_SameArguments ==
    /\ pc = "physics_build"
    /\ other.earlier = <<>>
    /\ other' = [other EXCEPT !.earlier = <<Solved>>]
    /\ bRes' = "none" /\ fbAtB' = "none"
    /\ evals' = 0
    /\ aKnown' = FALSE
    /\ pc' = "length_final"
    /\ tape' = TapeFor(PhysicsKey)
    /\ UNCHANGED <<inputVars, effort, ui, line, trace, a, fn, fLo, fHi, expand, i,
                   aLo, aHi, afLo, afHi, guard, tries, aExpand, ai, result, outcome>>

SolveNext ==
    \/ ReduceFrame
    \/ PhysicsBegin
    \/ solveB_Expand
    \/ solveB_NotBracketed
    \/ solveB_Bracketed
    \/ solveB_Bisect
    \/ solveB_Cap
    \/ solveBForA_SameArguments
    \/ LengthFinalSolve
    \/ solveBForA_Expand
    \/ solveBForA_NotBracketed
    \/ solveBForA_Bracketed
    \/ solveBForA_Bisect
    \/ solveBForA_Cap

SolveSpec == SolveInit /\ [][SolveNext]_vars

\* solveBForA has returned after solveB
BothSolved == pc = "length_build" /\ other.earlier # <<>>

\* C26: for the same a, L and dz, solveBForA makes the evaluations of fb that
\* solveB makes and returns the same b whenever a bracket is found; where
\* solveB returns 0 for want of a bracket, solveBForA returns null, and nowhere
\* else
C26_SameSolveExceptOnFailure ==
    BothSolved =>
        /\ a = PhysicsA
        /\ evals = other.earlier[1].evals
        /\ (bRes = "null") <=> (other.earlier[1].bRes = "default0")
        /\ bRes # "null" => /\ bRes = other.earlier[1].bRes
                            /\ fbAtB = other.earlier[1].fbAtB
        /\ evals <= 2 + 2 * BExpandCap + BIterCap

\* both solves doubled the interval and bisected to the same b
C26_Witness ==
    /\ BothSolved
    /\ bRes = "converged" /\ other.earlier[1].bRes = "converged"
    /\ evals > 5

-----------------------------------------------------------------------------
(* Dispatch *)

\* the strategy the options ask for, read from the option object itself
Asked ==
    IF "mode" \notin DOMAIN options \/ options.mode = "physics" THEN "Physics"
    ELSE IF options.mode = "length" /\ LengthGuard THEN "Length"
    ELSE "Sag"

\* where each strategy starts
EntryOf(strategy) ==
    CASE strategy = "Physics" -> "solveB_while"
      [] strategy = "Length" -> "length_while"
      [] strategy = "Sag" -> "sag_begin"

\* C27: the dispatch is total and made once in a call: a call without a mode
\* runs Physics, mode "length" with a finite positive lengthMeters runs Length,
\* every other mode or lengthMeters runs Sag, and a Sag strategy that was not
\* given a sagRatio works with 0.06
C27_DispatchIsTotal ==
    [][/\ pc' = "dispatch" => pc = "start" /\ trace' = <<>>
       /\ pc = "dispatch" => /\ trace = <<>>
                             /\ trace' = <<Asked>>
                             /\ pc' = EntryOf(Asked)
       /\ trace # <<>> => trace' # <<>> /\ trace'[1] = trace[1]
       /\ (pc' = "done" /\ outcome' = "Parabola" /\ "sagRatio" \notin DOMAIN options
             /\ numPoints >= 2)
            => result'.points[2].z.num
                 = ChordNum(numPoints, 1) - DefaultSagPct * L * 4 * (numPoints - 1)
      ]_vars

\* a call with a mode that is none of the three has returned the parabola of
\* the Sag strategy
C27_Witness ==
    /\ Done /\ "mode" \in DOMAIN options /\ options.mode = "tension"
    /\ trace = <<"Sag", "Parabola">> /\ outcome = "Parabola"

-----------------------------------------------------------------------------
(* InteractionManager, modes and selection: lines 443-642 and 689-824.       *)
(* createTransmissionLine is not stepped through here: no call is running.    *)

NoCall ==
    /\ startPos = Start /\ endPos = Start /\ options = [mode |-> "physics"]
    /\ effort = "off"
    /\ tape = <<>> /\ other = NoOther
    /\ CallBegins

ModeInit ==
    /\ NoCall
    /\ ui = Idle
    /\ line = NoLine

\* lines 467-473
enablePlaceMode ==
    /\ ui' = [ui EXCEPT !.placeMode = TRUE, !.connectMode = FALSE, !.pickMode = FALSE,
                        !.selectedObjects = <<>>, !.last = "enablePlaceMode"]
    /\ UNCHANGED <<callVars, line>>

\* lines 475-481
enableConnectMode ==
    /\ ui' = [ui EXCEPT !.connectMode = TRUE, !.placeMode = FALSE, !.pickMode = FALSE,
                        !.selectedObjects = <<>>, !.last = "enableConnectMode"]
    /\ UNCHANGED <<callVars, line>>

\* a variant of enablePickMode that leaves connectMode as it is
enablePickMode_KeepsConnect ==
    /\ ui' = [ui EXCEPT !.pickMode = TRUE, !.placeMode = FALSE, !.last = "enablePickMode"]
    /\ UNCHANGED <<callVars, line>>

\* lines 483-491: selectedObjects is not assigned
enablePickMode ==
    /\ ui' = [ui EXCEPT !.pickMode = TRUE, !.placeMode = FALSE, !.connectMode = FALSE,
                        !.last = "enablePickMode"]
    /\ UNCHANGED <<callVars, line>>

\* lines 493-502
resetMode(u) ==
    [u EXCEPT !.placeMode = FALSE, !.connectMode = FALSE, !.pickMode = FALSE,
              !.selectedObjects = <<>>]

\* resetMode called on its own
resetMode_Called ==
    /\ ui' = [resetMode(ui) EXCEPT !.last = "resetMode"]
    /\ UNCHANGED <<callVars, line>>

\* lines 689-824 as handleConnectObject calls it (line 639): the two selected
\* towers are objects, so line 693 does not return; a line per offset is made
\* and the mode is reset
createConnection(u) ==
    resetMode([u EXCEPT !.connected = <<u.selectedObjects[1], u.selectedObjects[2]>>])

\* lines 628-642: the click hit tower t, or no placed tower (t = 0)
handleConnectObject(u, t) ==
    IF t \in 1..u.placedObjects
    THEN LET pushed == [u EXCEPT !.selectedObjects = Append(@, t)]
         IN IF Len(pushed.selectedObjects) = 2 THEN createConnection(pushed) ELSE pushed
    ELSE u

\* lines 504-514 with 516-558, 560-582, 584-587 and 628-642: a click on tower
\* t, on anything else that has a position (t = 0), or on nothing (t = -1).
\* In place mode placeTower starts and awaits its first fetch (line 594).
handleInput ==
    /\ \E t \in -1..ui.placedObjects :
        IF ui.placeMode
        THEN IF t # -1
             THEN /\ Len(ui.pending) < MaxPending
                  /\ ui' = [ui EXCEPT !.pending = Append(@, "model"), !.last = "handleInput"]
             ELSE ui' = [ui EXCEPT !.last = "handleInput"]
        ELSE IF ui.connectMode
        THEN ui' = [handleConnectObject(ui, t) EXCEPT !.last = "handleInput"]
        ELSE IF ui.pickMode
        THEN ui' = [resetMode(ui) EXCEPT !.last = "handleInput"]
        ELSE ui' = [ui EXCEPT !.last = "handleInput"]
    /\ UNCHANGED <<callVars, line>>

\* s without its k-th element
Without(s, k) == [j \in 1..(Len(s) - 1) |-> IF j < k THEN s[j] ELSE s[j + 1]]

\* a variant of handlePlaceObject_Done that resets only a place mode
handlePlaceObject_Done_IfPlacing(u, k) ==
    [(IF u.placeMode THEN resetMode(u) ELSE u)
        EXCEPT !.pending = Without(u.pending, k),
               !.dropped = IF u.placeMode THEN u.selectedObjects ELSE <<>>,
               !.last = "placed"]

\* lines 587-588: placeTower has returned, an entity or null; resetMode()
handlePlaceObject_Done(u, k) ==
    [resetMode(u) EXCEPT !.pending = Without(u.pending, k),
                         !.dropped = u.selectedObjects,
                         !.last = "placed"]

\* lines 592-626: an awaited fetch of the k-th pending placement ends.  The
\* model fetch (line 594) ends well (the tower is added, and the weather is
\* fetched unless it is there) or throws; the weather fetch (line 616) ends
\* with or without data, or throws; line 621 catches what is thrown.
placeTower ==
    /\ \E k \in 1..Len(ui.pending), ok \in BOOLEAN :
        IF ui.pending[k] = "model"
        THEN IF ok
             THEN /\ ui.placedObjects < MaxTowers
                  /\ LET added == [ui EXCEPT !.placedObjects = @ + 1]
                     IN IF ~ui.weatherData
                        THEN ui' = [added EXCEPT !.pending[k] = "weather", !.last = "placeTower"]
                        ELSE ui' = handlePlaceObject_Done(added, k)
             ELSE ui' = handlePlaceObject_Done(ui, k)
        ELSE ui' = handlePlaceObject_Done([ui EXCEPT !.weatherData = @ \/ ok], k)
    /\ UNCHANGED <<callVars, line>>

ModeNext ==
    \/ enablePlaceMode
    \/ enableConnectMode
    \/ enablePickMode
    \/ resetMode_Called
    \/ handleInput
    \/ placeTower

ModeSpec == ModeInit /\ [][ModeNext]_vars

\* the modes that are on
ModesOn == {m \in {"placeMode", "connectMode", "pickMode"} : ui[m]}

\* C29: in every state of InteractionManager at most one of placeMode,
\* connectMode and pickMode is true and selectedObjects holds at most two
\* towers, all of them placed; the click on the second tower of a connection
\* makes the connection and leaves selectedObjects empty
C29_OneModeAndAtMostTwoSelected ==
    /\ [](Cardinality(ModesOn) <= 1)
    /\ [](/\ Len(ui.selectedObjects) <= 2
          /\ \A j \in 1..Len(ui.selectedObjects) : ui.selectedObjects[j] \in 1..ui.placedObjects)
    /\ [][(ui.connectMode /\ Len(ui.selectedObjects) = 1 /\ ui'.last = "handleInput"
            /\ ui'.selectedObjects # ui.selectedObjects)
          => /\ ui'.selectedObjects = <<>>
             /\ ui'.connected # <<>> /\ ui'.connected[1] = ui.selectedObjects[1]
             /\ ModesOn' = {}]_vars

\* two different towers have been connected by two clicks
C29_Witness ==
    /\ ui.last = "handleInput" /\ ui.connected # <<>>
    /\ ui.connected[1] # ui.connected[2]
    /\ ui.selectedObjects = <<>> /\ ModesOn = {}

\* C30: when a placement ends, with a tower or without, no mode is on and
\* selectedObjects is empty, whatever buttons were pressed and towers clicked
\* while it was pending: a selection made in connect mode meanwhile is dropped
C30_PlacementEndsInNoMode ==
    [][Len(ui'.pending) < Len(ui.pending)
        => /\ ui'.last = "placed"
           /\ ModesOn' = {} /\ ui'.selectedObjects = <<>>
           /\ ui'.dropped = ui.selectedObjects]_vars

\* a placement has ended while a tower was selected for a connection
C30_Witness ==
    /\ ui.last = "placed" /\ ui.dropped # <<>>
    /\ ModesOn = {} /\ ui.selectedObjects = <<>>

-----------------------------------------------------------------------------
(* InteractionManager, the geometry of one line: lines 958-1065.              *)
(* A tower moves along one axis in steps of sqrt(0.001) m, so that one step   *)
(* is at the threshold of line 979 and two steps are beyond it; temperatures  *)
(* are in units of 0.05 degrees.  The positions createTransmissionLine        *)
(* returns are kept as what they were computed for: the two endpoints and     *)
(* the total temperature that set lengthMeters (lines 1043-1053).             *)

MoveThreshold == 1      \* line 979: distanceSquared > 0.001
TempThreshold == 2      \* line 1035: Math.abs(totalTemp - lastTemp) < 0.1

\* the values of the load-heating input, after the load factor of line 1024
Loads == {0, 1, 3}

\* weatherManager.getTemperatureAtTime(time): the ambient temperature follows
\* the clock
Ambient(time) == time

Sq(x) == x * x
Abs(x) == IF x < 0 THEN -x ELSE x

\* lines 724-740: the lineData createConnection makes, start and end at the
\* towers, lastTemp null, nothing cached
LineInit ==
    /\ NoCall
    /\ ui = Idle
    /\ \E l \in Loads : line = [NoLine EXCEPT !.load = l]

\* the clock goes on
Tick ==
    /\ line.time < MaxClock
    /\ line' = [line EXCEPT !.time = @ + 1, !.returned = <<>>]
    /\ UNCHANGED <<callVars, ui>>

\* a tower is dragged one step
MoveTower ==
    /\ \E d \in {-1, 1} :
        \/ /\ line.tower1 + d \in 0..MaxShift
           /\ line' = [line EXCEPT !.tower1 = @ + d, !.returned = <<>>]
        \/ /\ line.tower2 + d \in 0..MaxShift
           /\ line' = [line EXCEPT !.tower2 = @ + d, !.returned = <<>>]
    /\ UNCHANGED <<callVars, ui>>

\* the load-heating input is changed
SetLoadHeating ==
    /\ \E l \in Loads \ {line.load} :
        line' = [line EXCEPT !.load = l, !.returned = <<>>]
    /\ UNCHANGED <<callVars, ui>>

\* the current total temperature: lines 1016-1030
TotalTemp == Ambient(line.time) + line.load

\* lines 958-1065, called by the polyline callbacks (lines 757, 772) with the
\* time of the clock
updateLineGeometry ==
    /\ LET start == line.tower1
           end == line.tower2
           dirty == \/ Sq(start - line.start) > MoveThreshold
                    \/ Sq(end - line.end) > MoveThreshold
           moved == [line EXCEPT !.start = start, !.end = end]
           positions == [start |-> start, end |-> end, temp |-> TotalTemp]
       IN IF /\ ~dirty /\ line.frameCache # <<>>
             /\ line.frameCache[1].time = line.time
          THEN line' = [moved EXCEPT !.returned = <<line.frameCache[1].positions>>]
          ELSE IF /\ ~dirty /\ line.lastTemp # <<>>
                  /\ Abs(TotalTemp - line.lastTemp[1]) < TempThreshold
          THEN line' = [moved EXCEPT !.returned = line.lastPositions]
          ELSE line' = [moved EXCEPT !.lastPositions = <<positions>>,
                                     !.lastTemp = <<TotalTemp>>,
                                     !.frameCache = <<[time |-> line.time,
                                                       positions |-> positions]>>,
                                     !.returned = <<positions>>]
    /\ UNCHANGED <<callVars, ui>>

LineNext ==
    \/ Tick
    \/ MoveTower
    \/ SetLoadHeating
    \/ updateLineGeometry

LineSpec == LineInit /\ [][LineNext]_vars

\* updateLineGeometry has just returned
JustReturned == line.returned # <<>>

\* C28: what updateLineGeometry returns was computed for endpoints that the
\* towers have not left by more than the threshold and for a total
\* temperature less than 0.1 from the current one
C28_ReturnedFollowsTowersAndTemperature ==
    JustReturned =>
        /\ Sq(line.returned[1].start - line.tower1) <= MoveThreshold
        /\ Sq(line.returned[1].end - line.tower2) <= MoveThreshold
        /\ Abs(line.returned[1].temp - TotalTemp) < TempThreshold

\* what the caches do guarantee: the returned positions are the last ones
\* computed, they are exact after a move beyond the threshold since the
\* previous call, and the current ones unless the clock stands where the last
\* computation was made or the temperature is within 0.1 of its temperature
C28_ReturnedIsLastComputed ==
    JustReturned =>
        /\ line.returned = line.lastPositions
        /\ line.lastTemp = <<line.returned[1].temp>>
        /\ line.start = line.tower1 /\ line.end = line.tower2
        /\ \/ line.returned[1] = [start |-> line.tower1, end |-> line.tower2,
                                  temp |-> TotalTemp]
           \/ line.frameCache[1].time = line.time
           \/ Abs(line.returned[1].temp - TotalTemp) < TempThreshold

====
